---- MODULE Spec2Model ----
(***************************************************************************)
(* Verification model of the secops misconfiguration detection and         *)
(* remediation repository.                                                 *)
(*                                                                         *)
(*   Spec          the cloud remediation endpoint (secops_app/app.py       *)
(*                 remediate_finding) driving the RemediationEngine        *)
(*                 (secops_app/services/remediation_engine.py) against an   *)
(*                 OpenStack control plane.                                *)
(*   SpecPipeline  the scan -> fix -> verify -> deploy pipeline            *)
(*                 (prescan_node/main.py PreScanNode.process_deployment).  *)
(*   SpecFixer     the IaC auto-fixer (prescan_node/services/fixer.py      *)
(*                 AutoFixer.fix / _apply_fix / rollback).                 *)
(*   SpecRollback, SpecScan, SpecProcesses, SpecTrigger                    *)
(*                 the rollback step by step, the periodic cloud scan, the *)
(*                 external commands, and the two callers of the pipeline. *)
(*   SpecYaml      one structured-document rule after the other            *)
(*                 (fixer.py _apply_yaml_rule).                            *)
(*   SpecRace      two remediation requests for one finding, call by call. *)
(*   SpecWatcher   the file watcher (prescan_node/services/watcher.py)     *)
(*                 with the pipeline as its batch callback; SpecWatcherFair*)
(*                 adds that the watch loop keeps running.                 *)
(*                                                                         *)
(* Python values are modelled as follows.  A dict whose keys are only ever *)
(* read with .get() and tested for truthiness is a record carrying the     *)
(* falsy value ("" / 0 / <<>>) under a key that is absent.  A runbook id   *)
(* is the sequence of its "_"-separated tokens, so that the id tests of    *)
(* the code (startswith, substring) are computed on the id itself.         *)
(***************************************************************************)
EXTENDS Integers, Sequences, FiniteSets, TLC

VARIABLES
    \* ---- cloud remediation (secops_app) ----
    catalog,            \* RemediationEngine.catalog, frozen after load
    findings,           \* table findings: id -> row
    remediation_runs,   \* table remediation_runs: sequence of rows, id = index
    cp,                 \* the OpenStack control plane behind the connection
    req,                \* the remediation request being served
    nreq,               \* number of requests served so far
    scans,              \* the scheduler's job and the run_scan calls in progress
    \* ---- pipeline (prescan_node/main.py) ----
    pipe,               \* the pipeline run in progress (results record + position)
    task,               \* the pipeline run of the scan-trigger API's background task
    scan_history,       \* PreScanNode.scan_history
    deploys,            \* number of Deployer.deploy invocations
    proc,               \* the last call that ran external commands, and how it ended
    \* ---- fixer (prescan_node/services/fixer.py) ----
    config,             \* the node's configuration (auto_fix, deploy)
    fs,                 \* trees: directory -> tree; backups: the backup copies
    fix_history,        \* AutoFixer._fix_history
    now,                \* wall clock, in seconds
    last,               \* outcome of the last fixer call
    rolling,            \* the rollback call in progress (its locals + position)
    \* ---- single operations followed step by step ----
    yamlrun,            \* one application of _apply_yaml_rule: input and output
    race,               \* two remediation runs of one finding, call by call
    watch               \* the file watcher: directories, hashes, pending batch

cloudVars == <<catalog, findings, remediation_runs, cp, req, nreq, scans>>
pipeVars  == <<pipe, task, scan_history, deploys, proc>>
fixVars   == <<config, fs, fix_history, now, last, rolling>>
sideVars  == <<yamlrun, race, watch>>
vars      == <<cloudVars, pipeVars, fixVars, sideVars>>

(***************************************************************************)
(* Bounds of the model.                                                    *)
(***************************************************************************)
MaxRequests == 2
MaxTime == 1
MaxBatches == 2
MaxRuns == 2
MaxFindings == 2
MaxScanFindings == 2
MaxRules == 2
MaxDirs == 4
MaxPlaced == 2
MaxTicks == 3
MaxManualScans == 1

(***************************************************************************)
(* Python helpers.                                                         *)
(***************************************************************************)
\* a or b, on strings ("" is falsy)
OrStr(a, b) == IF a # "" THEN a ELSE b

\* a or b, on integers (0 and None are falsy; None is modelled as 0)
OrInt(a, b) == IF a # 0 THEN a ELSE b

\* x in tokens-of-id, the model of the substring test  "x" in runbook_id
HasToken(id, tok) == \E i \in 1..Len(id) : id[i] = tok

\* runbook_id.startswith(prefix), prefix a token sequence
StartsWith(id, prefix) ==
    /\ Len(id) >= Len(prefix)
    /\ \A i \in 1..Len(prefix) : id[i] = prefix[i]

(***************************************************************************)
(* services/finding_types.py                                               *)
(***************************************************************************)
CANONICAL_TYPES ==
    { "SG_WORLD_OPEN_SSH", "SG_WORLD_OPEN_RDP", "SG_WORLD_OPEN_DB_PORT",
      "FIP_EXPOSED_INSTANCE", "PORT_SECURITY_DISABLED",
      "INSTANCE_ERROR_STATE", "VOLUME_ERROR_STATE",
      "OS_SSH_PASSWORD_AUTH_ENABLED", "OS_SSH_ROOT_LOGIN_ENABLED",
      "OS_FIREWALL_DISABLED", "OS_SCAN_UNREACHABLE" }

TYPE_ALIASES ==
    [ SG_OPEN_SSH         |-> "SG_WORLD_OPEN_SSH",
      SG_OPEN_RDP         |-> "SG_WORLD_OPEN_RDP",
      NOVA_SERVER_ERROR   |-> "INSTANCE_ERROR_STATE",
      CINDER_VOLUME_ERROR |-> "VOLUME_ERROR_STATE" ]

AliasLookup_NoAliases(raw_type) == raw_type

\* TYPE_ALIASES.get(raw_type, raw_type)
AliasLookup(raw_type) ==
    IF raw_type \in DOMAIN TYPE_ALIASES THEN TYPE_ALIASES[raw_type] ELSE raw_type

get_canonical_type(raw_type) ==
    IF raw_type = "" THEN "UNKNOWN"
    ELSE IF raw_type \in CANONICAL_TYPES THEN raw_type
    ELSE AliasLookup(raw_type)

(***************************************************************************)
(* services/normalize.py.  A row read from the findings table has the      *)
(* column ftype and no key "type"; a normalized finding has both, so the   *)
(* row is modelled with type = "" (absent) and normalisation fills it.     *)
(***************************************************************************)
normalize_finding(finding) ==
    LET raw0 == IF finding.ftype # "" THEN finding.ftype
                ELSE IF finding.type # "" THEN finding.type
                ELSE ""
        raw_type == IF raw0 = "" THEN "UNKNOWN" ELSE raw0
    IN  [finding EXCEPT !.raw_type = raw_type,
                        !.type = get_canonical_type(raw_type)]

\* dict(row): the finding as the endpoint reads it from the table
RowToFinding(row) ==
    [ id |-> row.id, ftype |-> row.ftype, type |-> "", raw_type |-> "",
      status |-> row.status, resource_id |-> row.resource_id,
      details_json |-> row.details_json ]

\* json.loads(details_json) if details_json else {}
NoDetails ==
    [ sg_id |-> "", server_id |-> "", port_id |-> "",
      port_min |-> 0, port_max |-> 0, floating_ips |-> <<>>,
      floating_ip |-> "", fixed_ip |-> "" ]

ParseDetails(details_json) ==
    IF details_json.text = "" THEN NoDetails ELSE details_json.obj

(***************************************************************************)
(* The runbook catalog (remediation/catalog.yml).  The document is         *)
(* configuration, not code; its runbook ids follow the naming conventions  *)
(* execute_runbook dispatches on.  Declaration order is sequence order.    *)
(***************************************************************************)
NoParams == [ admin_cidr |-> "", ansible_inventory |-> "" ]

RawCatalog ==
    << [ id |-> <<"rb", "sg", "restrict", "ssh">>,
         finding_types |-> {"SG_WORLD_OPEN_SSH"}, aliases |-> {"SG_OPEN_SSH"},
         approval_required |-> TRUE,
         params |-> [NoParams EXCEPT !.admin_cidr = "${ADMIN_CIDR}"] ],
       [ id |-> <<"rb", "sg", "restrict", "rdp">>,
         finding_types |-> {"SG_WORLD_OPEN_RDP"}, aliases |-> {"SG_OPEN_RDP"},
         approval_required |-> TRUE,
         params |-> NoParams ],
       [ id |-> <<"rb", "sg", "restrict", "db", "port">>,
         finding_types |-> {"SG_WORLD_OPEN_DB_PORT"}, aliases |-> {},
         approval_required |-> TRUE,
         params |-> [NoParams EXCEPT !.admin_cidr = "10.0.0.0/8"] ],
       [ id |-> <<"rb", "detach", "floating", "ip">>,
         finding_types |-> {"FIP_EXPOSED_INSTANCE"}, aliases |-> {},
         approval_required |-> TRUE,
         params |-> NoParams ],
       [ id |-> <<"rb", "enable", "port", "security">>,
         finding_types |-> {"PORT_SECURITY_DISABLED"}, aliases |-> {},
         approval_required |-> TRUE,
         params |-> NoParams ],
       [ id |-> <<"rb", "os", "disable", "root", "login">>,
         finding_types |-> {"OS_SSH_ROOT_LOGIN_ENABLED"}, aliases |-> {},
         approval_required |-> TRUE,
         params |-> [NoParams EXCEPT !.ansible_inventory = "${ANSIBLE_INVENTORY}"] ] >>

\* param_v.startswith("${") and param_v.endswith("}")
IsPlaceholder(v) == v \in {"${ADMIN_CIDR}", "${ANSIBLE_INVENTORY}"}

\* os.environ.get(param_v[2:-1], param_v): env carries "" for an unset name
SubstituteParam(v, env) ==
    IF ~IsPlaceholder(v) THEN v
    ELSE LET value == IF v = "${ADMIN_CIDR}" THEN env.ADMIN_CIDR
                      ELSE env.ANSIBLE_INVENTORY
         IN  IF value = "" THEN v ELSE value

_substitute_env_vars(raw, env) ==
    [ i \in 1..Len(raw) |->
        [ raw[i] EXCEPT !.params =
            [ k \in DOMAIN raw[i].params |-> SubstituteParam(raw[i].params[k], env) ] ] ]

\* what is found at a catalog path: a well-formed mapping of runbooks
\* ("mapping"), no file ("missing"), a text that is not YAML ("invalid"), or
\* an empty document, for which yaml.safe_load returns None ("empty")
DocKinds == {"mapping", "missing", "invalid", "empty"}

Document(kind, runbooks) == [ kind |-> kind, runbooks |-> runbooks ]

CatalogFile == Document("mapping", RawCatalog)

\* a catalog that also declares a security-group runbook whose id carries
\* none of the tags ssh, rdp, db
TelnetRunbook ==
    [ id |-> <<"rb", "sg", "restrict", "telnet">>,
      finding_types |-> {"SG_WORLD_OPEN_TELNET"}, aliases |-> {},
      approval_required |-> TRUE,
      params |-> [NoParams EXCEPT !.admin_cidr = "10.0.0.0/8"] ]

TelnetCatalogFile == Document("mapping", Append(RawCatalog, TelnetRunbook))

\* RemediationEngine._load_catalog: FileNotFoundError, the YAMLError of an
\* invalid text and the TypeError of len(None) are caught and give {}
_load_catalog(doc, env) ==
    IF doc.kind = "mapping" THEN _substitute_env_vars(doc.runbooks, env) ELSE <<>>

CatalogIds(cat) == { cat[i].id : i \in 1..Len(cat) }

CatalogGet(cat, runbook_id) ==
    cat[CHOOSE i \in 1..Len(cat) : cat[i].id = runbook_id]

NoRunbook == <<>>

\* canonical_type in finding_types or canonical_type in aliases
RunbookMatches(runbook_def, canonical_type) ==
    \/ canonical_type \in runbook_def.finding_types
    \/ canonical_type \in runbook_def.aliases

\* first runbook, in declaration order, that matches; NoRunbook (None) otherwise
resolve_runbook(cat, finding) ==
    LET canonical_type == normalize_finding(finding).type
        hits == { i \in 1..Len(cat) : RunbookMatches(cat[i], canonical_type) }
    IN  IF hits = {} THEN NoRunbook
        ELSE cat[CHOOSE i \in hits : \A j \in hits : i <= j].id

(***************************************************************************)
(* The control plane.  cp.rules holds the security-group rules (each with  *)
(* its own id), cp.fips maps a floating address to "absent", "detached" or *)
(* the id of the server it is attached to, cp.ports maps a port id to      *)
(* "absent", "off" or "on" (port_security_enabled).  A call raises when    *)
(* the injected fault names it.                                            *)
(***************************************************************************)
SSH_PORT == 22
RDP_PORT == 3389
MYSQL_PORT == 3306
ELASTICSEARCH_PORT == 9200

WORLD_CIDR == "0.0.0.0/0"
DEFAULT_ADMIN_CIDR == "192.168.0.0/16"

Rule(id, sg, direction, cidr, protocol, pmin, pmax) ==
    [ id |-> id, sg |-> sg, direction |-> direction, remote_ip_prefix |-> cidr,
      protocol |-> protocol, port_range_min |-> pmin, port_range_max |-> pmax ]

\* the attributes of a rule, without its id
RuleAttrs(r) == <<r.sg, r.direction, r.remote_ip_prefix, r.protocol,
                  r.port_range_min, r.port_range_max>>

\* Neutron rejects a remote_ip_prefix that is no CIDR
ValidCidr(cidr) == ~IsPlaceholder(cidr)

Line(msg, arg) == [ msg |-> msg, arg |-> arg ]

Outcome(status, stdout, stderr, c, calls, raised) ==
    [ result |-> [ status |-> status, stdout |-> stdout, stderr |-> stderr ],
      cp |-> c, calls |-> calls, raised |-> raised ]

MissingId_Never(id) == FALSE

\* if not sg_id / if not server_id / if not port_id
MissingId(id) == id = ""

\* the port of a security-group runbook; 0 when the database port is missing
SgPort(runbook_id, details) ==
    IF HasToken(runbook_id, "rdp") THEN RDP_PORT
    ELSE IF HasToken(runbook_id, "db") THEN OrInt(details.port_min, details.port_max)
    ELSE SSH_PORT

\* a match that does not look at the port
WorldRuleMatches_AnyPort(rule, port) ==
    /\ rule.direction = "ingress"
    /\ rule.remote_ip_prefix = WORLD_CIDR
    /\ rule.protocol = "tcp"

WorldRuleMatches(rule, port) ==
    /\ rule.direction = "ingress"
    /\ rule.remote_ip_prefix = WORLD_CIDR
    /\ rule.protocol = "tcp"
    /\ rule.port_range_min = port
    /\ rule.port_range_max = port

AdminRuleMatches_Never(rule, admin_cidr, port) == FALSE

AdminRuleMatches(rule, admin_cidr, port) ==
    /\ rule.direction = "ingress"
    /\ rule.remote_ip_prefix = admin_cidr
    /\ rule.protocol = "tcp"
    /\ rule.port_range_min = port
    /\ rule.port_range_max = port

_execute_sg_runbook(runbook_id, finding, params, c, fault) ==
    LET details == ParseDetails(finding.details_json)
        sg_id == OrStr(details.sg_id, finding.resource_id)
        port == SgPort(runbook_id, details)
        admin_cidr == IF params.admin_cidr = "" THEN DEFAULT_ADMIN_CIDR
                      ELSE params.admin_cidr
        \* sg = conn.network.find_security_group(sg_id): one snapshot of its rules
        sg_rules == { r \in c.rules : r.sg = sg_id }
        world == { r \in sg_rules : WorldRuleMatches(r, port) }
        world_rule == CHOOSE r \in world : TRUE
        admin_rule_exists == \E r \in sg_rules : AdminRuleMatches(r, admin_cidr, port)
        c1 == IF world = {} THEN c ELSE [c EXCEPT !.rules = @ \ {world_rule}]
        out1 == IF world = {}
                THEN << Line("No world-open rule found (already fixed?)", "") >>
                ELSE << Line("Deleted world-open rule", "") >>
        calls1 == {"find_security_group"}
                  \cup (IF world = {} THEN {} ELSE {"delete_security_group_rule"})
        c2 == [c1 EXCEPT !.rules = @ \cup
                  { Rule(c1.nextRuleId, sg_id, "ingress", admin_cidr, "tcp", port, port) },
                         !.nextRuleId = @ + 1]
    IN  IF MissingId(sg_id)
        THEN Outcome("failed", <<>>, <<Line("Missing security group ID", "")>>, c, {}, FALSE)
        ELSE IF port = 0
        THEN Outcome("failed", <<>>, <<Line("Missing database port in details", "")>>,
                     c, {}, FALSE)
        ELSE IF "find_security_group" \in fault
        THEN Outcome("failed", <<>>, <<Line("exception", "find_security_group")>>,
                     c, {"find_security_group"}, TRUE)
        ELSE IF sg_id \notin c.sgs
        THEN Outcome("failed", <<>>, <<Line("Security group not found", sg_id)>>,
                     c, {"find_security_group"}, FALSE)
        ELSE IF world # {} /\ "delete_security_group_rule" \in fault
        THEN Outcome("failed", <<>>, <<Line("Error deleting world-open rule", "")>>,
                     c, calls1, TRUE)
        ELSE IF admin_rule_exists
        THEN Outcome("success", out1 \o <<Line("Admin rule already exists", admin_cidr)>>,
                     <<>>, c1, calls1, FALSE)
        ELSE IF "create_security_group_rule" \in fault \/ ~ValidCidr(admin_cidr)
        THEN Outcome("failed", out1, <<Line("Error adding admin rule", admin_cidr)>>,
                     c1, calls1 \cup {"create_security_group_rule"}, TRUE)
        ELSE Outcome("success", out1 \o <<Line("Added rule", admin_cidr)>>, <<>>,
                     c2, calls1 \cup {"create_security_group_rule"}, FALSE)

FipAddrs == {"f1", "f2"}

\* conn.network.find_ip(addr): "absent" when there is no such address
FipState(c, addr) == IF addr \in DOMAIN c.fips THEN c.fips[addr] ELSE "absent"

\* conn.network.find_port(port_id): "absent" when there is no such port
PortState(c, port_id) == IF port_id \in DOMAIN c.ports THEN c.ports[port_id] ELSE "absent"

FipFault(addr) == IF addr = "f1" THEN "ip:f1" ELSE "ip:f2"

\* if fip and fip.port_id
NeedsDetach(state) == state \notin {"absent", "detached"}

\* a loop that stops at the first address whose detach raised
RECURSIVE DetachAll_StopAtError(_, _, _, _, _)
DetachAll_StopAtError(floating_ips, i, server_id, fault, acc) ==
    IF i > Len(floating_ips) THEN acc
    ELSE LET fip_addr == floating_ips[i]
             state == FipState(acc.cp, fip_addr)
         IN  IF FipFault(fip_addr) \in fault
             THEN [acc EXCEPT !.stderr = Append(@, Line("Error detaching", fip_addr)),
                              !.calls = @ \cup {"find_ip"}]
             ELSE DetachAll_StopAtError(floating_ips, i + 1, server_id, fault,
                    IF NeedsDetach(state)
                    THEN [acc EXCEPT !.cp.fips[fip_addr] = "detached",
                                     !.stdout = Append(@, Line("Detached floating IP", fip_addr)),
                                     !.calls = @ \cup {"find_ip", "update_ip"}]
                    ELSE [acc EXCEPT !.stdout = Append(@,
                                     Line("Floating IP not found or already detached", fip_addr)),
                                     !.calls = @ \cup {"find_ip"}])

\* the loop  for fip_addr in floating_ips  from position i on; acc carries the
\* control plane and the stdout / stderr lines collected so far
RECURSIVE DetachAll(_, _, _, _, _)
DetachAll(floating_ips, i, server_id, fault, acc) ==
    IF i > Len(floating_ips) THEN acc
    ELSE LET fip_addr == floating_ips[i]
             state == FipState(acc.cp, fip_addr)
             next ==
               IF FipFault(fip_addr) \in fault
               THEN [acc EXCEPT !.stderr = Append(@, Line("Error detaching", fip_addr)),
                                !.calls = @ \cup {"find_ip"}]
               ELSE IF NeedsDetach(state)
               THEN [acc EXCEPT !.cp.fips[fip_addr] = "detached",
                                !.stdout = Append(@, Line("Detached floating IP", fip_addr)),
                                !.calls = @ \cup {"find_ip", "update_ip"}]
               ELSE [acc EXCEPT !.stdout = Append(@,
                                     Line("Floating IP not found or already detached", fip_addr)),
                                !.calls = @ \cup {"find_ip"}]
         IN  DetachAll(floating_ips, i + 1, server_id, fault, next)

_execute_fip_runbook(finding, params, c, fault) ==
    LET details == ParseDetails(finding.details_json)
        server_id == OrStr(details.server_id, finding.resource_id)
        floating_ips == details.floating_ips
        done == DetachAll(floating_ips, 1, server_id, fault,
                          [ cp |-> c, stdout |-> <<>>, stderr |-> <<>>,
                            calls |-> {"find_server"} ])
    IN  IF MissingId(server_id)
        THEN Outcome("failed", <<>>, <<Line("Missing server ID", "")>>, c, {}, FALSE)
        ELSE IF "find_server" \in fault
        THEN Outcome("failed", <<>>, <<Line("exception", "find_server")>>,
                     c, {"find_server"}, TRUE)
        ELSE IF server_id \notin c.servers
        THEN Outcome("failed", <<>>, <<Line("Server not found", server_id)>>,
                     c, {"find_server"}, FALSE)
        ELSE IF done.stderr # <<>>
        THEN Outcome("failed", done.stdout, done.stderr, done.cp, done.calls, TRUE)
        ELSE Outcome("success",
                     IF done.stdout # <<>> THEN done.stdout
                     ELSE <<Line("No floating IPs to detach", "")>>,
                     <<>>, done.cp, done.calls, FALSE)

_execute_port_security_runbook(finding, params, c, fault) ==
    LET details == ParseDetails(finding.details_json)
        port_id == OrStr(details.port_id, finding.resource_id)
    IN  IF MissingId(port_id)
        THEN Outcome("failed", <<>>, <<Line("Missing port ID", "")>>, c, {}, FALSE)
        ELSE IF "update_port" \in fault \/ PortState(c, port_id) = "absent"
        THEN Outcome("failed", <<>>, <<Line("Error updating port", port_id)>>,
                     c, {"update_port"}, TRUE)
        ELSE Outcome("success", <<Line("Enabled port security on port", port_id)>>, <<>>,
                     [c EXCEPT !.ports[port_id] = "on"], {"update_port"}, FALSE)

\* inventory_exists models os.path.exists(ansible_inventory)
\* an OS runbook that reports success once it has an inventory and a server
_execute_os_runbook_Implemented(runbook_id, finding, params, inventory_exists) ==
    LET details == ParseDetails(finding.details_json)
        server_ip == OrStr(details.floating_ip, details.fixed_ip)
    IN  IF params.ansible_inventory = "" \/ ~inventory_exists
        THEN [ status |-> "failed", stdout |-> <<>>,
               stderr |-> <<Line("Ansible inventory not found", params.ansible_inventory)>> ]
        ELSE IF server_ip = ""
        THEN [ status |-> "failed", stdout |-> <<>>,
               stderr |-> <<Line("Missing server IP for OS remediation", "")>> ]
        ELSE [ status |-> "success", stdout |-> <<Line("playbook ran", server_ip)>>,
               stderr |-> <<>> ]

_execute_os_runbook(runbook_id, finding, params, inventory_exists) ==
    LET details == ParseDetails(finding.details_json)
        server_ip == OrStr(details.floating_ip, details.fixed_ip)
    IN  IF params.ansible_inventory = "" \/ ~inventory_exists
        THEN [ status |-> "failed", stdout |-> <<>>,
               stderr |-> <<Line("Ansible inventory not found", params.ansible_inventory)>> ]
        ELSE IF server_ip = ""
        THEN [ status |-> "failed", stdout |-> <<>>,
               stderr |-> <<Line("Missing server IP for OS remediation", "")>> ]
        ELSE [ status |-> "failed", stdout |-> <<>>,
               stderr |-> <<Line("OS runbooks require Ansible playbook implementation", "")>> ]

execute_runbook(cat, runbook_id, finding, c, fault, inventory_exists) ==
    LET finding_norm == normalize_finding(finding)
        params == CatalogGet(cat, runbook_id).params
    IN  IF runbook_id \notin CatalogIds(cat)
        THEN Outcome("failed", <<>>, <<Line("Runbook not found in catalog", "")>>,
                     c, {}, FALSE)
        ELSE IF StartsWith(runbook_id, <<"rb", "sg">>)
        THEN _execute_sg_runbook(runbook_id, finding_norm, params, c, fault)
        ELSE IF runbook_id = <<"rb", "detach", "floating", "ip">>
        THEN _execute_fip_runbook(finding_norm, params, c, fault)
        ELSE IF runbook_id = <<"rb", "enable", "port", "security">>
        THEN _execute_port_security_runbook(finding_norm, params, c, fault)
        ELSE IF StartsWith(runbook_id, <<"rb", "os">>)
        THEN [ result |-> _execute_os_runbook(runbook_id, finding_norm, params,
                                              inventory_exists),
               cp |-> c, calls |-> {}, raised |-> FALSE ]
        ELSE Outcome("failed", <<>>, <<Line("Unknown runbook type", "")>>, c, {}, FALSE)

(***************************************************************************)
(* Verification: re-query the object and look for the insecure condition.  *)
(* Each verifier returns [ok, calls]; an exception yields False.           *)
(***************************************************************************)
VerifyPorts == {22, 3389, 3306, 5432, 6379, 27017}

Verdict(ok, calls, raised) == [ ok |-> ok, calls |-> calls, raised |-> raised ]

_verify_sg_remediation(finding, c, fault) ==
    LET details == ParseDetails(finding.details_json)
        sg_id == OrStr(details.sg_id, finding.resource_id)
    IN  IF MissingId(sg_id) THEN Verdict(FALSE, {}, FALSE)
        ELSE IF "find_security_group" \in fault
        THEN Verdict(FALSE, {"find_security_group"}, TRUE)
        ELSE IF sg_id \notin c.sgs
        THEN Verdict(FALSE, {"find_security_group"}, FALSE)
        ELSE Verdict(~ \E rule \in c.rules :
                          /\ rule.sg = sg_id
                          /\ rule.direction = "ingress"
                          /\ rule.remote_ip_prefix = WORLD_CIDR
                          /\ rule.protocol = "tcp"
                          /\ rule.port_range_min \in VerifyPorts,
                     {"find_security_group"}, FALSE)

_verify_fip_remediation(finding, c, fault) ==
    LET details == ParseDetails(finding.details_json)
        server_id == OrStr(details.server_id, finding.resource_id)
    IN  IF MissingId(server_id) THEN Verdict(FALSE, {}, FALSE)
        ELSE IF "find_server" \in fault
        THEN Verdict(FALSE, {"find_server"}, TRUE)
        ELSE IF server_id \notin c.servers
        THEN Verdict(FALSE, {"find_server"}, FALSE)
        ELSE Verdict(~ \E a \in FipAddrs : FipState(c, a) = server_id,
                     {"find_server"}, FALSE)

_verify_port_security_remediation(finding, c, fault) ==
    LET details == ParseDetails(finding.details_json)
        port_id == OrStr(details.port_id, finding.resource_id)
    IN  IF MissingId(port_id) THEN Verdict(FALSE, {}, FALSE)
        ELSE IF "find_port" \in fault
        THEN Verdict(FALSE, {"find_port"}, TRUE)
        ELSE IF PortState(c, port_id) = "absent"
        THEN Verdict(FALSE, {"find_port"}, FALSE)
        ELSE Verdict(PortState(c, port_id) = "on", {"find_port"}, FALSE)

\* a verifier that refuses a type it has no check for
verify_remediation_Strict(finding, c, fault) ==
    LET finding_norm == normalize_finding(finding)
        canonical_type == finding_norm.type
    IN  IF canonical_type \in
             {"SG_WORLD_OPEN_SSH", "SG_WORLD_OPEN_RDP", "SG_WORLD_OPEN_DB_PORT"}
        THEN _verify_sg_remediation(finding_norm, c, fault)
        ELSE IF canonical_type = "FIP_EXPOSED_INSTANCE"
        THEN _verify_fip_remediation(finding_norm, c, fault)
        ELSE IF canonical_type = "PORT_SECURITY_DISABLED"
        THEN _verify_port_security_remediation(finding_norm, c, fault)
        ELSE Verdict(FALSE, {}, FALSE)

verify_remediation(finding, c, fault) ==
    LET finding_norm == normalize_finding(finding)
        canonical_type == finding_norm.type
    IN  IF canonical_type \in
             {"SG_WORLD_OPEN_SSH", "SG_WORLD_OPEN_RDP", "SG_WORLD_OPEN_DB_PORT"}
        THEN _verify_sg_remediation(finding_norm, c, fault)
        ELSE IF canonical_type = "FIP_EXPOSED_INSTANCE"
        THEN _verify_fip_remediation(finding_norm, c, fault)
        ELSE IF canonical_type = "PORT_SECURITY_DISABLED"
        THEN _verify_port_security_remediation(finding_norm, c, fault)
        ELSE Verdict(TRUE, {}, FALSE)

(***************************************************************************)
(* The remediation endpoint, app.py remediate_finding.  One request is     *)
(* served at a time; each commit to the database is one step, so that the  *)
(* statuses a finding passes through are states of the model.              *)
(***************************************************************************)
FindingIds == {1, 2}

NoResult == [ status |-> "", stdout |-> <<>>, stderr |-> <<>> ]
NoResponse == [ code |-> 0, status |-> "", detail |-> "" ]

Row(ftype, status, resource_id, text, obj) ==
    [ id |-> 1, ftype |-> ftype, status |-> status, resource_id |-> resource_id,
      details_json |-> [ text |-> text, obj |-> obj ] ]

IdleReq(c) ==
    [ pc |-> "idle", finding_id |-> 0, force |-> FALSE, conn_ok |-> TRUE,
      found |-> FALSE, before_status |-> "", runs_before |-> 0,
      finding |-> normalize_finding(RowToFinding(Row("", "", "", "", NoDetails))),
      runbook_id |-> NoRunbook, run_id |-> 0,
      result |-> NoResult, raised |-> FALSE, calls |-> {}, cp_before |-> c,
      verify_ok |-> "none", verify_raised |-> FALSE, verify_calls |-> {},
      response |-> NoResponse ]

\* the request passes the status check:  not (not force and status != "approved")
CheckStatus(force, status) == force \/ status = "approved"

\* runbook_def.get("approval_required", True) and not force and status != "approved"
ApprovalBlocks(cat, runbook_id, force, status) ==
    /\ runbook_id \in CatalogIds(cat)
    /\ CatalogGet(cat, runbook_id).approval_required
    /\ ~force
    /\ status # "approved"

Admitted0 == [ code |-> 0, detail |-> "" ]

Refusal_AlwaysBadRequest(code, detail) == [ code |-> 400, detail |-> detail ]

\* raise HTTPException(status_code=code, detail=detail)
Refusal(code, detail) == [ code |-> code, detail |-> detail ]

Admission_NoConnCheck(found, force, status, runbook_id, blocked, conn_ok) ==
    IF ~found THEN Refusal(404, "Finding not found")
    ELSE IF ~CheckStatus(force, status)
    THEN Refusal(400, "Finding status must be 'approved' to remediate")
    ELSE IF runbook_id = NoRunbook THEN Refusal(404, "No runbook found for finding type")
    ELSE IF blocked THEN Refusal(400, "Runbook requires approval")
    ELSE Admitted0

\* the checks of the endpoint before it creates the run record, in code
\* order; each refusal is the HTTPException raised, Admitted0 means none is
Admission(found, force, status, runbook_id, blocked, conn_ok) ==
    IF ~found THEN Refusal(404, "Finding not found")
    ELSE IF ~CheckStatus(force, status)
    THEN Refusal(400, "Finding status must be 'approved' to remediate")
    ELSE IF runbook_id = NoRunbook THEN Refusal(404, "No runbook found for finding type")
    ELSE IF blocked THEN Refusal(400, "Runbook requires approval")
    ELSE IF ~conn_ok THEN Refusal(500, "OpenStack connection failed")
    ELSE Admitted0

lastrowid_First(runs) == 1

\* cur.lastrowid after the INSERT: the id of the row just appended
lastrowid(runs) == Len(runs)

Request(finding_id, force, conn_ok) ==
    /\ req.pc \in {"idle", "done"}
    /\ nreq < MaxRequests
    /\ nreq' = nreq + 1
    /\ LET found == finding_id \in DOMAIN findings
           finding == RowToFinding(findings[finding_id])
           finding_norm == normalize_finding(finding)
           runbook_id == IF found THEN resolve_runbook(catalog, finding_norm) ELSE NoRunbook
           status == IF found THEN finding.status ELSE ""
           blocked == found /\ ApprovalBlocks(catalog, runbook_id, force, status)
           verdict == Admission(found, force, status, runbook_id, blocked, conn_ok)
           r0 == [IdleReq(cp) EXCEPT !.finding_id = finding_id, !.force = force,
                                     !.conn_ok = conn_ok, !.found = found,
                                     !.runs_before = Len(remediation_runs),
                                     !.before_status = status,
                                     !.runbook_id = runbook_id]
           r1 == IF found THEN [r0 EXCEPT !.finding = finding_norm] ELSE r0
           inserted == Append(remediation_runs,
                              [ finding_id |-> finding_id, runbook_id |-> runbook_id,
                                status |-> "started", stdout |-> <<>>, stderr |-> <<>> ])
       IN  IF verdict # Admitted0
           THEN /\ req' = [r1 EXCEPT !.pc = "done",
                                     !.response = [ code |-> verdict.code, status |-> "",
                                                    detail |-> verdict.detail ]]
                /\ UNCHANGED remediation_runs
           ELSE \* INSERT INTO remediation_runs ... 'started'
                /\ remediation_runs' = inserted
                /\ req' = [r1 EXCEPT !.pc = "started", !.run_id = lastrowid(inserted)]
    /\ UNCHANGED <<catalog, findings, cp, scans>>
    /\ UNCHANGED <<pipeVars, fixVars, sideVars>>

\* UPDATE findings SET status = 'remediating'
MarkRemediating ==
    /\ req.pc = "started"
    /\ findings' = [findings EXCEPT ![req.finding_id].status = "remediating"]
    /\ req' = [req EXCEPT !.pc = "executing"]
    /\ UNCHANGED <<catalog, remediation_runs, cp, nreq, scans>>
    /\ UNCHANGED <<pipeVars, fixVars, sideVars>>

\* result = execute_runbook(...); UPDATE remediation_runs SET status = result.status ...
Execute(fault, inventory_exists) ==
    /\ req.pc = "executing"
    /\ LET o == execute_runbook(catalog, req.runbook_id, req.finding, cp, fault,
                                inventory_exists)
       IN  /\ cp' = o.cp
           /\ remediation_runs' = [remediation_runs EXCEPT ![req.run_id] =
                  [@ EXCEPT !.status = o.result.status, !.stdout = o.result.stdout,
                            !.stderr = o.result.stderr]]
           /\ req' = [req EXCEPT !.pc = "executed", !.result = o.result,
                                 !.raised = o.raised, !.calls = o.calls,
                                 !.cp_before = cp]
    /\ UNCHANGED <<catalog, findings, nreq, scans>>
    /\ UNCHANGED <<pipeVars, fixVars, sideVars>>

\* "remediated_unverified" if result["status"] == "success" else "remediation_failed"
StatusAfterExecute(result_status) ==
    IF result_status = "success" THEN "remediated_unverified" ELSE "remediation_failed"

Reply(r) ==
    [r EXCEPT !.pc = "done",
              !.response = [ code |-> 200, status |-> r.result.status,
                             detail |-> IF r.result.status = "success"
                                        THEN "Remediation completed"
                                        ELSE "Remediation failed" ]]

\* UPDATE findings SET status = new_status; a failed run returns here
RecordResult ==
    /\ req.pc = "executed"
    /\ findings' = [findings EXCEPT ![req.finding_id].status =
                        StatusAfterExecute(req.result.status)]
    /\ req' = IF req.result.status = "success"
              THEN [req EXCEPT !.pc = "verifying"]
              ELSE Reply(req)
    /\ UNCHANGED <<catalog, remediation_runs, cp, nreq, scans>>
    /\ UNCHANGED <<pipeVars, fixVars, sideVars>>

StatusAfterVerify_AlwaysResolved(verify_ok) == "resolved"

\* the finding status the endpoint writes for verify_ok
StatusAfterVerify(verify_ok) == IF verify_ok THEN "resolved" ELSE "verify_failed"

\* verify_ok = verify_remediation(...); one commit updates the run and the finding
Verify(fault) ==
    /\ req.pc = "verifying"
    /\ LET v == verify_remediation(req.finding, cp, fault)
       IN  /\ remediation_runs' = [remediation_runs EXCEPT ![req.run_id].status =
                  IF v.ok THEN "verified" ELSE "verify_failed"]
           /\ findings' = [findings EXCEPT ![req.finding_id].status =
                  StatusAfterVerify(v.ok)]
           /\ req' = Reply([req EXCEPT !.verify_ok = IF v.ok THEN "true" ELSE "false",
                                       !.verify_raised = v.raised,
                                       !.verify_calls = v.calls,
                                       !.calls = @ \cup v.calls])
    /\ UNCHANGED <<catalog, cp, nreq, scans>>
    /\ UNCHANGED <<pipeVars, fixVars, sideVars>>

ExecFaults ==
    { {}, {"find_security_group"}, {"delete_security_group_rule"},
      {"create_security_group_rule"}, {"find_server"}, {"ip:f1"}, {"ip:f2"},
      {"update_port"} }

VerifyFaults == { {}, {"find_security_group", "find_server", "find_port"} }

(***************************************************************************)
(* The cloud scan (app.py): run_scan is called by startup, by the          *)
(* scheduler's interval job in a worker thread, and by POST /api/scan.     *)
(* A call is one entry of scans.runs from its start to its return.         *)
(***************************************************************************)
\* config.SENSITIVE_PORTS
SENSITIVE_PORTS == {22, 3389, 3306, 5432, 6379, 27017, 9200, 5601, 15672, 5672, 10250, 6443}

\* the finding type scan_security_groups gives a world-open tcp port, "" for none
ScanType(port) ==
    IF port = 22 THEN "SG_OPEN_SSH"
    ELSE IF port = 3389 THEN "SG_OPEN_RDP"
    ELSE IF port \in SENSITIVE_PORTS THEN "SG_WORLD_OPEN_DB_PORT"
    ELSE ""

\* the rules scan_security_groups reports
Reported(c) ==
    { r \in c.rules : /\ r.direction = "ingress"
                      /\ r.remote_ip_prefix = "0.0.0.0/0" /\ r.protocol = "tcp"
                      /\ r.port_range_min = r.port_range_max
                      /\ ScanType(r.port_range_min) # "" }

\* scan_security_groups(conn): one finding per reported rule, in rule order
RECURSIVE scan_security_groups(_, _)
scan_security_groups(c, rules) ==
    IF rules = {} THEN <<>>
    ELSE LET r == CHOOSE x \in rules : \A y \in rules : x.id <= y.id
         IN  << [ type |-> ScanType(r.port_range_min), resource_id |-> r.sg,
                  details_json |-> [NoDetails EXCEPT !.sg_id = r.sg,
                                                     !.port_min = r.port_range_min,
                                                     !.port_max = r.port_range_max] ] >>
             \o scan_security_groups(c, rules \ {r})

\* db_insert(items): every item becomes a row in status new
RECURSIVE db_insert(_, _)
db_insert(table, items) ==
    IF items = <<>> THEN table
    ELSE db_insert(Append(table, [ id |-> Len(table) + 1, ftype |-> Head(items).type,
                                   status |-> "new",
                                   resource_id |-> Head(items).resource_id,
                                   details_json |-> [ text |-> "json",
                                                      obj |-> Head(items).details_json ] ]),
                   Tail(items))

max_instances_Two == 1 + 1

\* sched.add_job(run_scan, "interval", ..., max_instances=1)
max_instances == 1

NoScans ==
    [ started |-> FALSE,   \* startup has started the scheduler
      fired |-> 0,         \* ticks of the interval trigger so far
      skipped |-> 0,       \* ticks the scheduler skipped
      submitted |-> 0,     \* ticks whose run_scan was started
      manual |-> 0,        \* POST /api/scan requests so far
      runs |-> <<>> ]      \* the run_scan calls in progress

Run(by) == [ by |-> by, pc |-> "scanning", all_findings |-> <<>> ]

\* the scheduler's count of running instances of the job
Instances(sc) == Cardinality({ i \in 1..Len(sc.runs) : sc.runs[i].by = "tick" })

Remove(seq, i) == SubSeq(seq, 1, i - 1) \o SubSeq(seq, i + 1, Len(seq))

\* startup: sched.start(), then run_scan() in the starting thread
Startup ==
    /\ ~scans.started
    /\ scans' = [scans EXCEPT !.started = TRUE, !.runs = Append(@, Run("startup"))]
    /\ UNCHANGED <<catalog, findings, remediation_runs, cp, req, nreq>>
    /\ UNCHANGED <<pipeVars, fixVars, sideVars>>

\* the interval trigger fires: the executor starts run_scan in a worker
\* thread unless max_instances instances of the job are running, in which
\* case the run is skipped and the job waits for its next tick
TickFires ==
    /\ scans.started
    /\ scans.fired < MaxTicks
    /\ scans' = IF Instances(scans) >= max_instances
                THEN [scans EXCEPT !.fired = @ + 1, !.skipped = @ + 1]
                ELSE [scans EXCEPT !.fired = @ + 1, !.submitted = @ + 1,
                                   !.runs = Append(@, Run("tick"))]
    /\ UNCHANGED <<catalog, findings, remediation_runs, cp, req, nreq>>
    /\ UNCHANGED <<pipeVars, fixVars, sideVars>>

\* POST /api/scan, served once startup has returned
ManualScan ==
    /\ scans.started
    /\ \A i \in 1..Len(scans.runs) : scans.runs[i].by # "startup"
    /\ scans.manual < MaxManualScans
    /\ scans' = [scans EXCEPT !.manual = @ + 1, !.runs = Append(@, Run("manual"))]
    /\ UNCHANGED <<catalog, findings, remediation_runs, cp, req, nreq>>
    /\ UNCHANGED <<pipeVars, fixVars, sideVars>>

\* run_scan up to its db_insert: get_conn and the scanners; an exception is
\* logged and ends the call, as does a scan without findings
ScanCollect(i, conn_ok) ==
    /\ i \in 1..Len(scans.runs)
    /\ scans.runs[i].pc = "scanning"
    /\ LET all_findings == scan_security_groups(cp, Reported(cp))
       IN  scans' = IF conn_ok /\ all_findings # <<>>
                    THEN [scans EXCEPT !.runs[i].pc = "inserting",
                                       !.runs[i].all_findings = all_findings]
                    ELSE [scans EXCEPT !.runs = Remove(@, i)]
    /\ UNCHANGED <<catalog, findings, remediation_runs, cp, req, nreq>>
    /\ UNCHANGED <<pipeVars, fixVars, sideVars>>

\* db_insert(all_findings) and the return of run_scan
ScanInsert(i) ==
    /\ i \in 1..Len(scans.runs)
    /\ scans.runs[i].pc = "inserting"
    /\ findings' = db_insert(findings, scans.runs[i].all_findings)
    /\ scans' = [scans EXCEPT !.runs = Remove(@, i)]
    /\ UNCHANGED <<catalog, remediation_runs, cp, req, nreq>>
    /\ UNCHANGED <<pipeVars, fixVars, sideVars>>

(***************************************************************************)
(* The IaC fixer (prescan_node/services/fixer.py).                         *)
(*                                                                         *)
(* A file's text is kept as the features the fix types read and write: the *)
(* CIDR it carries, whether lines end in blanks, whether it ends with a    *)
(* newline, whether it parses as YAML, and the keys of its YAML mapping    *)
(* (a key maps to "" when absent).  A tree is a directory: it exists or    *)
(* not and maps each file name to a file.                                  *)
(***************************************************************************)
Targets == {"tA", "tB"}
FileNames == {"main.tf", "play.yml"}
YamlKeys == {"no_log", "become"}

NoMapping == [ k \in YamlKeys |-> "" ]

File(cidr, trailing, final_nl, parses, data) ==
    [ exists |-> TRUE, cidr |-> cidr, trailing |-> trailing, final_nl |-> final_nl,
      parses |-> parses, data |-> data ]

NoFile ==
    [ exists |-> FALSE, cidr |-> "", trailing |-> FALSE, final_nl |-> FALSE,
      parses |-> FALSE, data |-> NoMapping ]

NoTree == [ exists |-> FALSE, files |-> [ n \in FileNames |-> NoFile ] ]

\* a finding of an IaC scanner
IacFinding(id, scanner, check_id, title, severity, file_path) ==
    [ id |-> id, scanner |-> scanner, check_id |-> check_id, title |-> title,
      description |-> "", severity |-> severity, file_path |-> file_path ]

NoPattern == [ checkov |-> "", yamllint |-> "", ansible_lint |-> "", regex |-> "" ]
NoRule ==
    [ pattern |-> "", replacement |-> "", when |-> NoMapping, when_missing |-> "",
      add |-> NoMapping, ensure |-> NoMapping, set |-> NoMapping,
      remove_trailing_spaces |-> TRUE, ensure_final_newline |-> TRUE ]

\* the runbooks of the IaC catalog document, in declaration order; "" stands
\* for a key the document does not give
IacCatalog ==
    << [ id |-> <<"fix", "sg", "open", "ssh">>,
         finding_patterns |-> << [NoPattern EXCEPT !.checkov = "CKV_SSH"] >>,
         fix |-> [ type |-> "regex_replace", target_files |-> <<"*.tf">>,
                   rules |-> << [NoRule EXCEPT !.pattern = "0.0.0.0/0",
                                               !.replacement = "${admin_cidr}"] >> ],
         severity |-> "HIGH", auto_approve |-> FALSE ],
       [ id |-> <<"fix", "yaml", "format">>,
         finding_patterns |-> << [NoPattern EXCEPT !.yamllint = "trailing-spaces"],
                                 [NoPattern EXCEPT !.regex = "trailing spaces"] >>,
         fix |-> [ type |-> "yaml_format", target_files |-> <<>>, rules |-> <<NoRule>> ],
         severity |-> "LOW", auto_approve |-> FALSE ],
       [ id |-> <<"fix", "ansible", "no", "log">>,
         finding_patterns |-> << [NoPattern EXCEPT !.ansible_lint = "no-log-password"] >>,
         fix |-> [ type |-> "yaml_transform", target_files |-> <<"*.yml">>,
                   rules |-> << [NoRule EXCEPT !.when_missing = "no_log",
                                               !.add = [NoMapping EXCEPT !.no_log = "true"]],
                                [NoRule EXCEPT !.when = [NoMapping EXCEPT !.become = "true"],
                                               !.ensure = [NoMapping EXCEPT !.become = "false"]] >> ],
         severity |-> "CRITICAL", auto_approve |-> TRUE ],
       [ id |-> <<"fix", "sg", "inject", "tags">>,
         finding_patterns |-> << [NoPattern EXCEPT !.checkov = "CKV_TAGS"] >>,
         fix |-> [ type |-> "file_inject", target_files |-> <<"*.tf">>, rules |-> <<>> ],
         severity |-> "CRITICAL", auto_approve |-> FALSE ],
       [ id |-> <<"fix", "sg", "custom", "shell">>,
         finding_patterns |-> << [NoPattern EXCEPT !.checkov = "CKV_SHELL"] >>,
         fix |-> [ type |-> "shell_command", target_files |-> <<>>, rules |-> <<>> ],
         severity |-> "HIGH", auto_approve |-> FALSE ] >>

\* class FixType: the type tags the enumeration knows
FixTypes ==
    { "regex_replace", "yaml_transform", "ast_transform", "file_inject",
      "yaml_format", "yaml_inject" }

IacCatalogFile == Document("mapping", IacCatalog)

\* RunbookCatalog.__init__ with _load_catalog: a missing file leaves the
\* runbooks empty; yaml.safe_load raises on an invalid text and data.items()
\* raises on None, and neither is caught
RunbookCatalog(doc) ==
    CASE doc.kind = "mapping" -> [ raised |-> FALSE, runbooks |-> doc.runbooks ]
      [] doc.kind = "missing" -> [ raised |-> FALSE, runbooks |-> <<>> ]
      [] OTHER -> [ raised |-> TRUE, runbooks |-> <<>> ]

\* AutoFixer.__init__ on its configuration and the document at the catalog
\* path: constructed is false when the constructor raised
AutoFixer(cfg, doc) ==
    [ enabled |-> cfg.enabled, require_approval |-> cfg.require_approval,
      variables |-> cfg.variables, deploy_enabled |-> cfg.deploy_enabled,
      catalog_doc |-> doc.kind, catalog |-> RunbookCatalog(doc).runbooks,
      constructed |-> ~RunbookCatalog(doc).raised ]

\* pattern.get(finding.scanner, "")
PatternGet(pattern, scanner) ==
    CASE scanner = "checkov" -> pattern.checkov
      [] scanner = "yamllint" -> pattern.yamllint
      [] scanner = "ansible_lint" -> pattern.ansible_lint
      [] OTHER -> ""

\* re.search(pattern, text, re.IGNORECASE) for the patterns of the catalog
RegexSearch(pattern, text) ==
    /\ pattern = "trailing spaces"
    /\ text \in {"Trailing Spaces found", "line has trailing spaces"}

PatternMatches(pattern, finding) ==
    LET scanner_pattern == PatternGet(pattern, finding.scanner)
    IN  \/ scanner_pattern # "" /\ scanner_pattern = finding.check_id
        \/ /\ pattern.regex # ""
           /\ \/ RegexSearch(pattern.regex, finding.title)
              \/ RegexSearch(pattern.regex, finding.description)

NoIacRunbook == 0

find_runbook_Last(cat, finding) ==
    LET hits == { i \in 1..Len(cat) :
                    \E j \in 1..Len(cat[i].finding_patterns) :
                        PatternMatches(cat[i].finding_patterns[j], finding) }
    IN  IF hits = {} THEN NoIacRunbook
        ELSE CHOOSE i \in hits : \A k \in hits : i >= k

\* RunbookCatalog.find_runbook: the index in the catalog of the first runbook
\* one of whose patterns matches, NoIacRunbook when there is none
find_runbook(cat, finding) ==
    LET hits == { i \in 1..Len(cat) :
                    \E j \in 1..Len(cat[i].finding_patterns) :
                        PatternMatches(cat[i].finding_patterns[j], finding) }
    IN  IF hits = {} THEN NoIacRunbook
        ELSE CHOOSE i \in hits : \A k \in hits : i <= k

\* AutoFixer.analyze: the (finding, runbook) pairs of the fixable findings
RECURSIVE analyze(_, _)
analyze(cat, fl) ==
    IF fl = <<>> THEN <<>>
    ELSE LET rb == find_runbook(cat, Head(fl))
         IN  (IF rb = NoIacRunbook THEN <<>> ELSE << <<Head(fl), rb>> >>)
                 \o analyze(cat, Tail(fl))

\* AutoFixer._substitute_variables on the replacement texts of the catalog
_substitute_variables(text, variables) ==
    IF text \in {"${admin_cidr}", "${var.admin_cidr}"} /\ "admin_cidr" \in DOMAIN variables
    THEN variables["admin_cidr"]
    ELSE text

\* re.sub of every rule of the runbook, in order
RECURSIVE _apply_regex_fix(_, _, _)
_apply_regex_fix(content, rules, variables) ==
    IF rules = <<>> THEN content
    ELSE LET rule == Head(rules)
             replacement == _substitute_variables(rule.replacement, variables)
             fixed == IF rule.pattern # "" /\ content.cidr = rule.pattern
                      THEN [content EXCEPT !.cidr = replacement]
                      ELSE content
         IN  _apply_regex_fix(fixed, Tail(rules), variables)

\* the conditions of a rule with "*" compared like any other value
RuleApplies_NoWildcard(data, rule) ==
    /\ \A k \in YamlKeys : rule.when[k] # "" => data[k] = rule.when[k]
    /\ ~(rule.when_missing # "" /\ data[rule.when_missing] # "")

\* the conditions of a rule on a mapping: every `when` pair but the "*" ones,
\* and when_missing
RuleApplies(data, rule) ==
    /\ \A k \in YamlKeys :
          (rule.when[k] # "" /\ rule.when[k] # "*") => data[k] = rule.when[k]
    /\ ~(rule.when_missing # "" /\ data[rule.when_missing] # "")

_apply_yaml_rule(data, rule, variables) ==
    LET added == [ k \in YamlKeys |->
                     IF rule.add[k] # "" /\ data[k] = ""
                     THEN _substitute_variables(rule.add[k], variables) ELSE data[k] ]
        ensured == [ k \in YamlKeys |->
                     IF rule.ensure[k] # ""
                     THEN _substitute_variables(rule.ensure[k], variables) ELSE added[k] ]
        set_value == [ k \in YamlKeys |->
                     IF rule.set[k] # ""
                     THEN _substitute_variables(rule.set[k], variables) ELSE ensured[k] ]
    IN  IF RuleApplies(data, rule) THEN set_value ELSE data

RECURSIVE ApplyYamlRules(_, _, _)
ApplyYamlRules(data, rules, variables) ==
    IF rules = <<>> THEN data
    ELSE ApplyYamlRules(_apply_yaml_rule(data, Head(rules), variables), Tail(rules),
                        variables)

\* yaml.safe_load, the rules, yaml.dump: the dumped text has no trailing
\* blanks and ends with a newline; a text that does not parse, or an empty
\* document, is returned as it is
_apply_yaml_transform(content, rules, variables) ==
    IF ~content.parses \/ content.data = NoMapping THEN content
    ELSE [content EXCEPT !.data = ApplyYamlRules(content.data, rules, variables),
                         !.trailing = FALSE, !.final_nl = TRUE]

\* rules = runbook.fix.get("rules", [{}])[0] raises on an empty list
YamlFormatRaises(rules) == rules = <<>>

_apply_yaml_format(content, rules) ==
    LET r == rules[1]
        stripped == IF r.remove_trailing_spaces THEN [content EXCEPT !.trailing = FALSE]
                    ELSE content
    IN  IF r.ensure_final_newline THEN [stripped EXCEPT !.final_nl = TRUE] ELSE stripped

\* fnmatch of a file name against a target_files pattern of the catalog
GlobMatch(pattern, name) ==
    \/ pattern = "*"
    \/ pattern = "*.tf" /\ name = "main.tf"
    \/ pattern = "*.yml" /\ name = "play.yml"
    \/ pattern = name

\* target_path.glob("**/pattern")
Glob(tree, pattern) ==
    { n \in FileNames : tree.exists /\ tree.files[n].exists /\ GlobMatch(pattern, n) }

NoTargetFile == ""

RECURSIVE FirstGlobMatch(_, _)
FirstGlobMatch(tree, patterns) ==
    IF patterns = <<>> THEN NoTargetFile
    ELSE IF Glob(tree, Head(patterns)) # {}
         THEN CHOOSE n \in Glob(tree, Head(patterns)) : TRUE
         ELSE FirstGlobMatch(tree, Tail(patterns))

\* AutoFixer._find_target_file: the finding's own path if it exists, else a
\* file of that name matched by a target pattern, else the first match of the
\* runbook's target patterns
_find_target_file(finding, runbook, tree) ==
    LET own == finding.file_path
        patterns == runbook.fix.target_files
        by_name == { n \in UNION { Glob(tree, p) :
                          p \in (IF patterns = <<>> THEN {"*"}
                                 ELSE { patterns[i] : i \in 1..Len(patterns) }) } :
                       n = own }
    IN  IF own # "" /\ own \in FileNames /\ tree.exists /\ tree.files[own].exists
        THEN own
        ELSE IF own # "" /\ by_name # {} THEN CHOOSE n \in by_name : TRUE
        ELSE FirstGlobMatch(tree, patterns)

\* the approval gate: not auto-approved, HIGH or CRITICAL, and a configured
\* category occurring in the runbook id
NeedsApproval(runbook, require_approval) ==
    /\ ~runbook.auto_approve
    /\ runbook.severity \in {"HIGH", "CRITICAL"}
    /\ \E cat \in require_approval : HasToken(runbook.id, cat)

FixAction(runbook, finding, target_file, status, msg, arg, written) ==
    [ runbook_id |-> runbook.id, finding_id |-> finding.id,
      fix_type |-> runbook.fix.type, target_file |-> target_file,
      original_content |-> NoFile, fixed_content |-> NoFile,
      status |-> status, error_message |-> Line(msg, arg),
      written |-> written ]    \* written: target_file.write_text was called

\* the content a fix type produces from the original content
FixedContent(runbook, original, variables) ==
    CASE runbook.fix.type = "regex_replace" ->
             _apply_regex_fix(original, runbook.fix.rules, variables)
      [] runbook.fix.type = "yaml_transform" ->
             _apply_yaml_transform(original, runbook.fix.rules, variables)
      [] OTHER -> _apply_yaml_format(original, runbook.fix.rules)

WriteNeeded_Always(fixed_content, original_content) == TRUE

\* if fixed_content != original_content
WriteNeeded(fixed_content, original_content) == fixed_content # original_content

\* AutoFixer._apply_fix on the tree of the target: the action, the tree after
\* it, and whether FixType(fix_type_str) raised
_apply_fix(finding, runbook, tree, cfg) ==
    LET target_file == _find_target_file(finding, runbook, tree)
        original == tree.files[target_file]
        fixed == FixedContent(runbook, original, cfg.variables)
        act(status, msg, arg, written) ==
            FixAction(runbook, finding, target_file, status, msg, arg, written)
        done(a, tr) == [ raised |-> FALSE, action |-> a, tree |-> tr ]
        \* action.original_content and action.fixed_content, once assigned
        read(a) == [a EXCEPT !.original_content = original]
        produced(a) == [read(a) EXCEPT !.fixed_content = fixed]
    IN  IF runbook.fix.type \notin FixTypes
        THEN [ raised |-> TRUE, action |-> act("pending", "", "", FALSE), tree |-> tree ]
        ELSE IF NeedsApproval(runbook, cfg.require_approval)
        THEN done(act("requires_approval", "", "", FALSE), tree)
        ELSE IF target_file = NoTargetFile
        THEN done(act("failed", "Target file not found", finding.file_path, FALSE), tree)
        ELSE IF runbook.fix.type \notin {"regex_replace", "yaml_transform", "yaml_format"}
        THEN done(read(act("skipped", "Unsupported fix type", runbook.fix.type, FALSE)),
                  tree)
        ELSE IF runbook.fix.type = "yaml_format" /\ YamlFormatRaises(runbook.fix.rules)
        THEN done(read(act("failed", "list index out of range", "", FALSE)), tree)
        ELSE IF WriteNeeded(fixed, original)
        THEN done(produced(act("success", "", "", TRUE)),
                  [tree EXCEPT !.files[target_file] = fixed])
        ELSE done(produced(act("skipped", "No changes needed", "", FALSE)), tree)

\* the loop of fix() over the fixable pairs, from the i-th on
RECURSIVE ApplyAll(_, _, _, _, _, _)
ApplyAll(cat, fixable, i, tree, cfg, actions) ==
    IF i > Len(fixable) THEN [ raised |-> FALSE, actions |-> actions, tree |-> tree ]
    ELSE LET r == _apply_fix(fixable[i][1], cat[fixable[i][2]], tree, cfg)
         IN  IF r.raised THEN [ raised |-> TRUE, actions |-> actions, tree |-> tree ]
             ELSE ApplyAll(cat, fixable, i + 1, r.tree, cfg, Append(actions, r.action))

NoPath == <<>>

\* batch_id = f"fix_{now:%Y%m%d%H%M%S}": one id per second
BatchId(t) == <<"fix", t>>

\* target_path.parent / f"{target_path.name}_backup_{now:%Y%m%d_%H%M%S}"
BackupPath(target, t) == <<target, "backup", t>>

BackupExists(f, path) == \E b \in f.backups : b.path = path
BackupTree(f, path) == (CHOOSE b \in f.backups : b.path = path).tree

FixBatch(id, target, status, actions, backup_path, before) ==
    [ id |-> id, target_path |-> target, status |-> status, actions |-> actions,
      backup_path |-> backup_path,
      before |-> before ]      \* (history variable) the tree when fix was called

successful_actions(batch) ==
    Cardinality({ i \in 1..Len(batch.actions) : batch.actions[i].status = "success" })

failed_actions(batch) ==
    Cardinality({ i \in 1..Len(batch.actions) : batch.actions[i].status = "failed" })

NoBatch == FixBatch(NoPath, "", "", <<>>, NoPath, NoTree)

CopytreeRaises_Never(src_exists, dst_exists) == FALSE

\* shutil.copytree(src, dst) raises when src is missing or dst exists
CopytreeRaises(src_exists, dst_exists) == ~src_exists \/ dst_exists

\* AutoFixer.fix at clock t: what it returns or that it raised, and the file
\* system and the history it leaves
fix(cat, cfg, hist, f, t, fl, target) ==
    LET before == f.trees[target]
        backup_path == BackupPath(target, t)
        f1 == [f EXCEPT !.backups = @ \cup {[ path |-> backup_path, tree |-> before ]}]
        applied == ApplyAll(cat, analyze(cat, fl), 1, before, cfg, <<>>)
        f2 == [f1 EXCEPT !.trees[target] = applied.tree]
        running == FixBatch(BatchId(t), target, "running", applied.actions, backup_path, before)
        batch == [running EXCEPT !.status = IF failed_actions(running) = 0
                                            THEN "completed" ELSE "failed"]
    IN  IF ~cfg.enabled
        THEN [ raised |-> FALSE, fs |-> f, hist |-> hist,
               batch |-> FixBatch(BatchId(t), target, "skipped", <<>>, NoPath, before) ]
        ELSE IF CopytreeRaises(before.exists, BackupExists(f, backup_path))
        THEN [ raised |-> TRUE, batch |-> NoBatch, fs |-> f, hist |-> hist ]
        ELSE IF applied.raised
        THEN [ raised |-> TRUE, batch |-> NoBatch, fs |-> f2, hist |-> hist ]
        ELSE [ raised |-> FALSE, batch |-> batch, fs |-> f2, hist |-> Append(hist, batch) ]

\* next((b for b in self._fix_history if b.id == batch_id), None): its index
FirstWithId(hist, batch_id) ==
    LET hits == { i \in 1..Len(hist) : hist[i].id = batch_id }
    IN  IF hits = {} THEN 0 ELSE CHOOSE i \in hits : \A k \in hits : i <= k

\* the locals of a rollback call between its rmtree and its copytree
NoRollback ==
    [ pc |-> "idle", batch_id |-> NoPath, target_path |-> "", backup_path |-> NoPath,
      before |-> NoTree ]      \* (history variable) the tree when rollback was called

\* AutoFixer.rollback up to and including shutil.rmtree(target_path)
rollback(hist, f, batch_id) ==
    LET i == FirstWithId(hist, batch_id)
        batch == hist[i]
    IN  IF i = 0 THEN [ removed |-> FALSE, raised |-> FALSE, fs |-> f, call |-> NoRollback ]
        ELSE IF batch.backup_path = NoPath \/ ~BackupExists(f, batch.backup_path)
        THEN [ removed |-> FALSE, raised |-> FALSE, fs |-> f, call |-> NoRollback ]
        ELSE IF ~f.trees[batch.target_path].exists
        THEN [ removed |-> FALSE, raised |-> TRUE, fs |-> f, call |-> NoRollback ]
        ELSE [ removed |-> TRUE, raised |-> FALSE,
               fs |-> [f EXCEPT !.trees[batch.target_path] = NoTree],
               call |-> [ pc |-> "copytree", batch_id |-> batch_id,
                          target_path |-> batch.target_path,
                          backup_path |-> batch.backup_path,
                          before |-> f.trees[batch.target_path] ] ]

\* the names of the files a tree holds
Present(tree) == { n \in FileNames : tree.files[n].exists }

\* shutil.copytree(src, dst) when dst is absent: it makes the directory and
\* copies the files; a file whose copy fails (io_errors) is left out and
\* copytree raises after the others were tried
copytree(src, io_errors) ==
    [ raised |-> Present(src) \cap io_errors # {},
      tree |-> [ exists |-> TRUE,
                 files |-> [ n \in FileNames |->
                               IF n \in io_errors THEN NoFile ELSE src.files[n] ] ] ]

(***************************************************************************)
(* Calls of the fixer: fix(findings, target_path) and rollback(batch_id),  *)
(* and the passing of time.                                                *)
(***************************************************************************)
NoCall ==
    [ op |-> "none", target |-> "", findings |-> <<>>, batch_id |-> NoPath,
      batch |-> NoBatch, raised |-> FALSE, ok |-> FALSE, backup_taken |-> FALSE ]

Tick ==
    /\ now < MaxTime
    /\ now' = now + 1
    /\ UNCHANGED <<config, fs, fix_history, last, rolling>>
    /\ UNCHANGED <<cloudVars, pipeVars, sideVars>>

\* the outcome of one fix call, as the caller sees it
FixCall(r, fl, target, f) ==
    [ op |-> "fix", target |-> target, findings |-> fl, batch_id |-> r.batch.id,
      batch |-> r.batch, raised |-> r.raised, ok |-> ~r.raised,
      backup_taken |-> r.fs.backups # f.backups ]

Fix(fl, target) ==
    /\ config.constructed
    /\ Len(fix_history) < MaxBatches
    /\ LET r == fix(config.catalog, config, fix_history, fs, now, fl, target)
       IN  /\ fs' = r.fs
           /\ fix_history' = r.hist
           /\ last' = FixCall(r, fl, target, fs)
    /\ UNCHANGED <<config, now, rolling>>
    /\ UNCHANGED <<cloudVars, pipeVars, sideVars>>

\* rollback(batch_id) from its entry to its rmtree; the endpoint serves one
\* rollback at a time
Rollback(batch_id) ==
    /\ config.constructed
    /\ rolling.pc = "idle"
    /\ LET r == rollback(fix_history, fs, batch_id)
       IN  /\ fs' = r.fs
           /\ rolling' = r.call
           /\ last' = [NoCall EXCEPT !.op = IF r.removed THEN "rollback_running"
                                            ELSE "rollback",
                                     !.batch_id = batch_id, !.raised = r.raised]
    /\ UNCHANGED <<config, fix_history, now>>
    /\ UNCHANGED <<cloudVars, pipeVars, sideVars>>

\* the copytree of the rollback in progress, and its return
RollbackCopy(io_errors) ==
    /\ rolling.pc = "copytree"
    /\ LET r == copytree(BackupTree(fs, rolling.backup_path), io_errors)
       IN  /\ fs' = [fs EXCEPT !.trees[rolling.target_path] = r.tree]
           /\ last' = [NoCall EXCEPT !.op = "rollback", !.batch_id = rolling.batch_id,
                                     !.ok = ~r.raised, !.raised = r.raised]
    /\ rolling' = NoRollback
    /\ UNCHANGED <<config, fix_history, now>>
    /\ UNCHANGED <<cloudVars, pipeVars, sideVars>>

(***************************************************************************)
(* The pipeline (prescan_node/main.py, PreScanNode.process_deployment),    *)
(* one action per phase; a phase that ends the run appends the results     *)
(* record to scan_history.                                                 *)
(***************************************************************************)
NoCount == -1

NoResults ==
    [ id |-> NoPath, target_path |-> "", status |-> "", scan_results |-> <<>>,
      findings_count |-> 0, fix_batch |-> NoBatch, verification_results |-> <<>>,
      remaining_findings |-> NoCount, remaining_high_critical |-> NoCount,
      deployment |-> "", deployment_skipped |-> NoCount, error |-> "",
      rescan_count |-> NoCount ]  \* (history variable) findings of the re-scan

PipeIdle == [ pc |-> "idle", results |-> NoResults, all_findings |-> <<>> ]

\* one scanner's ScanResult
ScanResult(scanner, status, fl) == [ scanner |-> scanner, status |-> status, findings |-> fl ]

\* IaCScanner.get_all_findings
RECURSIVE get_all_findings(_)
get_all_findings(scan_results) ==
    IF scan_results = <<>> THEN <<>>
    ELSE Head(scan_results).findings \o get_all_findings(Tail(scan_results))

\* the two callers of process_deployment: the watcher thread (_on_batch_ready)
\* and the background task of POST /api/scans
Callers == {"watcher", "api"}

\* the run of a caller
RunOf(who) == IF who = "watcher" THEN pipe ELSE task

\* the caller's run becomes run_next; the other caller's run is untouched
SetRun(who, run_next) ==
    IF who = "watcher" THEN pipe' = run_next /\ task' = task
    ELSE task' = run_next /\ pipe' = pipe

\* phase 1: the results record is created and the target is scanned
ScanPhase(who, target, scan_results) ==
    /\ RunOf(who).pc = "idle"
    /\ config.constructed
    /\ Len(scan_history) < MaxRuns
    /\ fs.trees[target].exists
    /\ LET all_findings == get_all_findings(scan_results)
       IN  SetRun(who, [ pc |-> "fix", all_findings |-> all_findings,
                     results |-> [NoResults EXCEPT !.id = <<"pipeline", now>>,
                                                   !.target_path = target,
                                                   !.status = "running",
                                                   !.scan_results = scan_results,
                                                   !.findings_count = Len(all_findings)] ])
    /\ UNCHANGED <<scan_history, deploys, proc>>
    /\ UNCHANGED <<cloudVars, fixVars, sideVars>>

Failed_Discard(results, error) == [NoResults EXCEPT !.status = "failed", !.error = error]

\* except Exception: status failed, error recorded, record appended
Failed(results, error) == [results EXCEPT !.status = "failed", !.error = error]

\* phase 2: fixer.fix when there are findings and the fixer is enabled
FixPhase(who) ==
    LET run == RunOf(who) IN
    /\ run.pc = "fix"
    /\ IF run.all_findings # <<>> /\ config.enabled
       THEN LET r == fix(config.catalog, config, fix_history, fs, now, run.all_findings,
                         run.results.target_path)
            IN  /\ fs' = r.fs
                /\ fix_history' = r.hist
                /\ last' = FixCall(r, run.all_findings, run.results.target_path, fs)
                /\ IF r.raised
                   THEN /\ scan_history' = Append(scan_history,
                                                  Failed(run.results, "fix raised"))
                        /\ SetRun(who, PipeIdle)
                   ELSE /\ SetRun(who, [run EXCEPT
                               !.pc = IF successful_actions(r.batch) > 0
                                      THEN "verify" ELSE "deploy",
                               !.results.fix_batch = r.batch])
                        /\ UNCHANGED scan_history
       ELSE /\ SetRun(who, [run EXCEPT !.pc = "deploy"])
            /\ UNCHANGED <<fs, fix_history, last, scan_history>>
    /\ UNCHANGED <<config, now, rolling, deploys, proc>>
    /\ UNCHANGED <<cloudVars, sideVars>>

\* phase 3: the verification scan; the severity filter names Severity, which
\* main.py does not import, so it raises as soon as one finding remains
VerifyPhase(who, verify_results) ==
    LET run == RunOf(who) IN
    /\ run.pc = "verify"
    /\ LET remaining_findings == get_all_findings(verify_results)
           r1 == [run.results EXCEPT !.verification_results = verify_results,
                                      !.rescan_count = Len(remaining_findings)]
       IN  IF remaining_findings # <<>>
           THEN /\ scan_history' = Append(scan_history,
                                          Failed(r1, "name 'Severity' is not defined"))
                /\ SetRun(who, PipeIdle)
           ELSE /\ SetRun(who, [run EXCEPT !.pc = "deploy",
                               !.results = [r1 EXCEPT !.remaining_findings = 0,
                                                      !.remaining_high_critical = 0]])
                /\ UNCHANGED scan_history
    /\ UNCHANGED <<deploys, proc>>
    /\ UNCHANGED <<cloudVars, fixVars, sideVars>>

DeployAllowed_AnyCount(remaining) == remaining >= 0

\* if remaining == 0
DeployAllowed(remaining) == remaining = 0

\* phase 4: deploy when the deployer is enabled and nothing remains
DeployPhase(who, deploy_status) ==
    LET run == RunOf(who) IN
    /\ run.pc = "deploy"
    /\ LET results == run.results
           remaining == IF results.remaining_findings # NoCount
                        THEN results.remaining_findings ELSE results.findings_count
           r1 == IF ~config.deploy_enabled THEN results
                 ELSE IF DeployAllowed(remaining)
                 THEN [results EXCEPT !.deployment = deploy_status]
                 ELSE [results EXCEPT !.deployment_skipped = remaining]
       IN  /\ deploys' = IF config.deploy_enabled /\ DeployAllowed(remaining)
                         THEN deploys + 1 ELSE deploys
           /\ scan_history' = Append(scan_history, [r1 EXCEPT !.status = "completed"])
    /\ SetRun(who, PipeIdle)
    /\ UNCHANGED proc
    /\ UNCHANGED <<cloudVars, fixVars, sideVars>>

\* process_deployment as _on_batch_ready calls it in the watcher thread (pipe)
PipeScan(target, scan_results) == ScanPhase("watcher", target, scan_results)
PipeFix == FixPhase("watcher")
PipeVerify(verify_results) == VerifyPhase("watcher", verify_results)
PipeDeploy(deploy_status) == DeployPhase("watcher", deploy_status)

(***************************************************************************)
(* External commands (scanner.py, deployer.py).  Every command runs under  *)
(* subprocess.run(..., timeout=...): it exits with a return code or the    *)
(* timeout expires.  A call is modelled with the commands it ran.          *)
(***************************************************************************)
Exited(returncode) == [ timed_out |-> FALSE, returncode |-> returncode ]
TimedOut == [ timed_out |-> TRUE, returncode |-> 0 ]

\* _run_command: the exit code it returns, -1 for subprocess.TimeoutExpired
_run_command(p) == IF p.timed_out THEN -1 ELSE p.returncode

NoProc ==
    [ op |-> "none", status |-> "", error |-> "", ran |-> <<>>, timeouts |-> {},
      findings |-> <<>> ]

\* CheckovScanner.scan / YamllintScanner.scan under IaCScanner.scan: the
\* status and the findings of the ScanResult
scanner_scan(scanner, p, parse_raises, fl) ==
    LET exit_code == _run_command(p)
    IN  IF exit_code = -1 THEN ScanResult(scanner, "error", <<>>)
        ELSE IF parse_raises THEN ScanResult(scanner, "error", <<>>)
        ELSE IF scanner = "checkov"
        THEN ScanResult(scanner, IF exit_code = 0 THEN "passed" ELSE "failed", fl)
        ELSE ScanResult(scanner, IF fl = <<>> THEN "passed" ELSE "failed", fl)

\* a raise inside Deployer.deploy, or the normal end of a part of it
Raise(error, ran) == [ raised |-> TRUE, error |-> error, ran |-> ran, plan |-> FALSE,
                       failed_runs |-> 0 ]
Passed(ran, plan, failed_runs) ==
    [ raised |-> FALSE, error |-> "", ran |-> ran, plan |-> plan,
      failed_runs |-> failed_runs ]

\* Deployer.deploy, the Terraform part: init, validate, plan and, with
\* auto_apply, apply; plan raises for exit code 1 only, apply raises when the
\* plan file is not there
DeployTerraform(src, cfg, run) ==
    LET plan_code == _run_command(run["plan"])
        plan_file == plan_code \in {0, 2} \/ src.stale_plan
    IN  IF ~src.tf_files THEN Passed(<<>>, FALSE, 0)
        ELSE IF _run_command(run["init"]) # 0
        THEN Raise("Terraform init failed", <<"init">>)
        ELSE IF _run_command(run["validate"]) # 0
        THEN Raise("Terraform validation failed", <<"init", "validate">>)
        ELSE IF plan_code = 1
        THEN Raise("Terraform plan failed", <<"init", "validate", "plan">>)
        ELSE IF ~cfg.auto_apply THEN Passed(<<"init", "validate", "plan">>, TRUE, 0)
        ELSE IF ~plan_file
        THEN Raise("Plan file not found", <<"init", "validate", "plan">>)
        ELSE IF _run_command(run["apply"]) # 0
        THEN Raise("Terraform apply failed", <<"init", "validate", "plan", "apply">>)
        ELSE Passed(<<"init", "validate", "plan", "apply">>, TRUE, 0)

\* the Ansible part for one playbook: a failed syntax check skips the
\* playbook, a run is failed unless its exit code is 0
DeployAnsible(src, run) ==
    IF ~src.playbooks THEN Passed(<<>>, FALSE, 0)
    ELSE IF _run_command(run["check_syntax"]) # 0 THEN Passed(<<"check_syntax">>, FALSE, 0)
    ELSE Passed(<<"check_syntax", "run_playbook">>, FALSE,
                IF _run_command(run["run_playbook"]) = 0 THEN 0 ELSE 1)

\* Deployer.deploy: the status of the Deployment it returns, its error
\* message and the commands it ran
deploy(src, cfg, run) ==
    LET tf == DeployTerraform(src, cfg, run)
        an == DeployAnsible(src, run)
        status == IF an.failed_runs > 0 THEN "failed" ELSE "success"
        verified == cfg.verify_enabled /\ status = "success" /\ tf.plan /\ src.tf_subdir
    IN  IF ~cfg.enabled THEN [ status |-> "cancelled", error |-> "", ran |-> <<>> ]
        ELSE IF tf.raised THEN [ status |-> "failed", error |-> tf.error, ran |-> tf.ran ]
        ELSE [ status |-> status,
               error |-> IF status = "failed" THEN "playbook(s) failed" ELSE "",
               ran |-> tf.ran \o an.ran \o (IF verified THEN <<"output">> ELSE <<>>) ]

\* the commands of a call whose timeout expired
Expired(ran, run) == { c \in { ran[i] : i \in 1..Len(ran) } : run[c].timed_out }

\* one scanner is run on a target
ScannerScan(scanner, p, parse_raises, fl) ==
    /\ LET r == scanner_scan(scanner, p, parse_raises, fl)
       IN  proc' = [NoProc EXCEPT !.op = "scan", !.status = r.status,
                                  !.findings = r.findings, !.ran = <<scanner>>,
                                  !.timeouts = IF p.timed_out THEN {scanner} ELSE {}]
    /\ UNCHANGED <<pipe, task, scan_history, deploys>>
    /\ UNCHANGED <<cloudVars, fixVars, sideVars>>

\* Deployer.deploy is called on a source directory
Deploy(src, cfg, run) ==
    /\ LET d == deploy(src, cfg, run)
       IN  proc' = [NoProc EXCEPT !.op = "deploy", !.status = d.status,
                                  !.error = d.error, !.ran = d.ran,
                                  !.timeouts = Expired(d.ran, run)]
    /\ UNCHANGED <<pipe, task, scan_history, deploys>>
    /\ UNCHANGED <<cloudVars, fixVars, sideVars>>

(***************************************************************************)
(* Initial states of the cloud side: one finding row as a scanner or an    *)
(* operator left it (status new, approved or rejected), and the control    *)
(* plane objects the finding is about.                                     *)
(***************************************************************************)
InitialStatuses == {"new", "approved", "rejected"}

Details(sg_id, server_id, port_id, port_min, floating_ips) ==
    [ sg_id |-> sg_id, server_id |-> server_id, port_id |-> port_id,
      port_min |-> port_min, port_max |-> port_min, floating_ips |-> floating_ips,
      floating_ip |-> "", fixed_ip |-> "" ]

\* the rules a security group sg-1 may hold initially, and one rule of sg-2
RulePool ==
    { Rule(1, "sg-1", "ingress", WORLD_CIDR, "tcp", SSH_PORT, SSH_PORT),
      Rule(2, "sg-1", "ingress", WORLD_CIDR, "tcp", RDP_PORT, RDP_PORT),
      Rule(3, "sg-1", "ingress", WORLD_CIDR, "tcp", MYSQL_PORT, MYSQL_PORT),
      Rule(4, "sg-1", "ingress", "10.0.0.0/8", "tcp", SSH_PORT, SSH_PORT) }

OtherGroupRules ==
    { Rule(5, "sg-2", "ingress", WORLD_CIDR, "tcp", SSH_PORT, SSH_PORT) }

\* a world-open rule on a port of config.SENSITIVE_PORTS that is none of the
\* ports named in _verify_sg_remediation
ElasticRule ==
    Rule(6, "sg-1", "ingress", WORLD_CIDR, "tcp", ELASTICSEARCH_PORT, ELASTICSEARCH_PORT)

\* the sets of rules sg-1 may hold initially
RuleSets == (SUBSET RulePool) \cup { {Rule(1, "sg-1", "ingress", WORLD_CIDR, "tcp", SSH_PORT, SSH_PORT), ElasticRule} }

FirstFreeRuleId == 7

BaseCp ==
    [ sgs |-> {"sg-1", "sg-2"}, rules |-> OtherGroupRules, nextRuleId |-> FirstFreeRuleId,
      servers |-> {"srv-1"}, fips |-> [ a \in FipAddrs |-> "absent" ],
      ports |-> [ p \in {"p1"} |-> "on" ] ]

EnvSet == [ ADMIN_CIDR |-> "10.0.0.0/8", ANSIBLE_INVENTORY |-> "/data/secops/inventory.ini" ]
EnvUnset == [ ADMIN_CIDR |-> "", ANSIBLE_INVENTORY |-> "" ]

\* a scenario is <<finding row, control plane, environment at catalog load>>
SgScenarios ==
    { <<Row(t, st, rid, IF sg = "" /\ pm = 0 THEN "" ELSE "json",
            Details(sg, "", "", pm, <<>>)),
        [BaseCp EXCEPT !.sgs = IF ex THEN @ ELSE {"sg-2"},
                       !.rules = @ \cup (IF ex THEN rs ELSE {})],
        env>> :
        t \in {"SG_OPEN_SSH", "SG_WORLD_OPEN_SSH", "SG_OPEN_RDP", "SG_WORLD_OPEN_DB_PORT"},
        st \in InitialStatuses, rid \in {"", "sg-1"}, sg \in {"", "sg-1"},
        pm \in {0, MYSQL_PORT}, ex \in BOOLEAN, rs \in RuleSets,
        env \in {EnvSet, EnvUnset} }

\* port_min is read for the database runbook only, and the environment for the
\* SSH runbook's admin_cidr placeholder only
SgRelevant(sc) ==
    /\ sc[1].ftype # "SG_WORLD_OPEN_DB_PORT" => sc[1].details_json.obj.port_min = 0
    /\ sc[1].ftype \notin {"SG_OPEN_SSH", "SG_WORLD_OPEN_SSH"} => sc[3] = EnvSet

FipScenarios ==
    { <<Row("FIP_EXPOSED_INSTANCE", st, rid, IF srv = "" /\ fl = <<>> THEN "" ELSE "json",
            Details("", srv, "", 0, fl)),
        [BaseCp EXCEPT !.servers = IF ex THEN @ ELSE {},
                       !.fips = [ a \in FipAddrs |-> IF a = "f1" THEN s1 ELSE s2 ]],
        EnvSet>> :
        st \in InitialStatuses, rid \in {"", "srv-1"}, srv \in {"", "srv-1"},
        fl \in {<<>>, <<"f1">>, <<"f1", "f2">>}, ex \in BOOLEAN,
        s1 \in {"absent", "detached", "srv-1"}, s2 \in {"absent", "detached", "srv-1"} }

PortScenarios ==
    { <<Row("PORT_SECURITY_DISABLED", st, rid, IF pid = "" THEN "" ELSE "json",
            Details("", "", pid, 0, <<>>)),
        [BaseCp EXCEPT !.ports = [ p \in {"p1"} |-> ps ]],
        EnvSet>> :
        st \in InitialStatuses, rid \in {"", "p1"}, pid \in {"", "p1"},
        ps \in {"absent", "off", "on"} }

OtherScenarios ==
    { <<Row(t, st, "res-1", "", NoDetails), BaseCp, env>> :
        t \in {"NOVA_SERVER_ERROR", "OS_SSH_ROOT_LOGIN_ENABLED", "API_UNAUTHENTICATED_ACCESS", ""},
        st \in InitialStatuses, env \in {EnvSet, EnvUnset} }

\* OS findings whose details name the server's address
OsScenarios ==
    { <<Row("OS_SSH_ROOT_LOGIN_ENABLED", st, "srv-1", "json",
            [NoDetails EXCEPT !.server_id = "srv-1", !.floating_ip = ip[1],
                              !.fixed_ip = ip[2]]),
        BaseCp, env>> :
        st \in InitialStatuses, ip \in { <<"203.0.113.5", "">>, <<"", "10.0.0.5">> },
        env \in {EnvSet, EnvUnset} }

Scenarios ==
    { sc \in SgScenarios : SgRelevant(sc) }
        \cup FipScenarios \cup PortScenarios \cup OtherScenarios \cup OsScenarios

\* findings of the type the untagged security-group runbook declares
TelnetScenarios ==
    { <<Row("SG_WORLD_OPEN_TELNET", st, "sg-1", "json", Details("sg-1", "", "", 0, <<>>)),
        [BaseCp EXCEPT !.rules = @ \cup rs],
        EnvSet>> :
        st \in InitialStatuses,
        rs \in { {}, {Rule(1, "sg-1", "ingress", WORLD_CIDR, "tcp", SSH_PORT, SSH_PORT)} } }

NoConfig ==
    [ enabled |-> FALSE, require_approval |-> {}, variables |-> [ n \in {} |-> "" ],
      deploy_enabled |-> FALSE, catalog_doc |-> "missing", catalog |-> <<>>,
      constructed |-> FALSE ]

\* no rule application, no race and no watcher in progress
NoYamlRun == [ pc |-> "none" ]
NoRace    == [ pc |-> "none" ]
NoWatch   == [ pc |-> "none" ]

SideIdle == yamlrun = NoYamlRun /\ race = NoRace /\ watch = NoWatch

\* the pipeline and the fixer at rest
IacIdle ==
    /\ pipe = PipeIdle /\ task = PipeIdle /\ scan_history = <<>> /\ deploys = 0
    /\ proc = NoProc
    /\ config = NoConfig /\ fs = [ trees |-> [ t \in Targets |-> NoTree ], backups |-> {} ]
    /\ fix_history = <<>> /\ now = 0 /\ last = NoCall /\ rolling = NoRollback

InitOthersIdle ==
    /\ SideIdle
    /\ IacIdle

\* the finding row, the control plane and the catalog loaded at start
InitScenario(sc, doc) ==
    /\ findings = [ i \in {1} |-> sc[1] ]
    /\ cp = sc[2]
    /\ catalog = _load_catalog(doc, sc[3])
    /\ req = IdleReq(sc[2])

Init ==
    /\ \/ \E sc \in Scenarios : InitScenario(sc, CatalogFile)
       \/ \E sc \in TelnetScenarios : InitScenario(sc, TelnetCatalogFile)
    /\ remediation_runs = <<>>
    /\ nreq = 0 /\ scans = NoScans
    /\ InitOthersIdle

Next ==
    \/ \E finding_id \in FindingIds, force \in BOOLEAN, conn_ok \in BOOLEAN :
          Request(finding_id, force, conn_ok)
    \/ MarkRemediating
    \/ \E fault \in ExecFaults, inventory_exists \in BOOLEAN : Execute(fault, inventory_exists)
    \/ RecordResult
    \/ \E fault \in VerifyFaults : Verify(fault)

Spec == Init /\ [][Next]_vars

(***************************************************************************)
(* Initial states and specifications of the IaC side.                      *)
(***************************************************************************)
\* the findings the scanners may report
IacFindings ==
    { IacFinding(1, "checkov", "CKV_SSH", "open ssh", "HIGH", "main.tf"),
      IacFinding(2, "yamllint", "trailing-spaces", "trailing", "LOW", "play.yml"),
      IacFinding(3, "ansible_lint", "E999", "Trailing Spaces found", "LOW", ""),
      IacFinding(4, "ansible_lint", "no-log-password", "no_log", "MEDIUM", "play.yml"),
      IacFinding(5, "checkov", "CKV_TAGS", "tags", "LOW", "main.tf"),
      IacFinding(6, "checkov", "CKV_SHELL", "shell", "HIGH", "main.tf"),
      IacFinding(7, "checkov", "CKV_NONE", "no runbook", "HIGH", "main.tf"),
      IacFinding(8, "checkov", "CKV_SSH", "line has trailing spaces", "HIGH", "gone.tf") }

\* the lists of at most n findings of a pool, in the order of their ids
ListsOf(pool, n) ==
    { fl \in UNION { [1..k -> pool] : k \in 0..n } :
        \A i, j \in 1..Len(fl) : i < j => fl[i].id < fl[j].id }

\* the findings that occur together in one call
PairFindings == { f \in IacFindings : f.id \in {1, 6} }

\* the lists fix() is called with: any single finding, or several of the
\* findings that occur together
FindingLists ==
    { fl \in ListsOf(IacFindings, MaxFindings) :
        Len(fl) > 1 => \A i \in 1..Len(fl) : fl[i] \in PairFindings }

PlayYml(trailing, data) == File("", trailing, ~trailing, TRUE, data)

TreeOpen ==
    [ exists |-> TRUE,
      files |-> [ n \in FileNames |->
                    IF n = "main.tf" THEN File("0.0.0.0/0", FALSE, TRUE, FALSE, NoMapping)
                    ELSE PlayYml(TRUE, [NoMapping EXCEPT !.become = "true"]) ] ]

TreeClean ==
    [ exists |-> TRUE,
      files |-> [ n \in FileNames |->
                    IF n = "main.tf" THEN File("10.0.0.0/8", FALSE, TRUE, FALSE, NoMapping)
                    ELSE PlayYml(FALSE, [NoMapping EXCEPT !.no_log = "true"]) ] ]

TreeNoTf == [TreeOpen EXCEPT !.files["main.tf"] = NoFile]

NoVariables == [ n \in {} |-> "" ]
NodeVariables == [ n \in {"admin_cidr"} |-> "10.0.0.0/8" ]

Configs ==
    [ enabled : BOOLEAN, require_approval : { {}, {"sg"} },
      variables : { NoVariables, NodeVariables }, deploy_enabled : BOOLEAN ]

\* the fixer alone reads neither deploy_enabled nor, when disabled, the rest
FixerConfigs ==
    { c \in Configs : /\ ~c.deploy_enabled
                      /\ ~c.enabled => (c.require_approval = {} /\ c.variables = NoVariables) }

\* PreScanNode._init_fixer always sets the variables
NodeConfigs == { c \in Configs : c.variables = NodeVariables }

InitTrees ==
    { [ t \in Targets |-> IF t = "tA" THEN tr[1] ELSE tr[2] ] :
        tr \in { <<TreeOpen, TreeOpen>>, <<TreeNoTf, TreeClean>>, <<TreeOpen, NoTree>> } }

CloudIdle ==
    /\ catalog = _load_catalog(CatalogFile, EnvSet)
    /\ findings = <<>> /\ remediation_runs = <<>> /\ nreq = 0 /\ scans = NoScans
    /\ cp = BaseCp /\ req = IdleReq(BaseCp)

InitIaC(configs) ==
    /\ CloudIdle
    /\ SideIdle
    /\ config \in configs
    /\ \E trees \in InitTrees : fs = [ trees |-> trees, backups |-> {} ]
    /\ fix_history = <<>> /\ now = 0 /\ last = NoCall /\ rolling = NoRollback
    /\ pipe = PipeIdle /\ task = PipeIdle /\ scan_history = <<>> /\ deploys = 0
    /\ proc = NoProc

\* the fixers: every configuration over the catalog document, and the plain
\* configuration over each other kind of document
PlainConfig ==
    [ enabled |-> TRUE, require_approval |-> {}, variables |-> NoVariables,
      deploy_enabled |-> FALSE ]

Fixers ==
    { AutoFixer(c, IacCatalogFile) : c \in FixerConfigs }
        \cup { AutoFixer(PlainConfig, Document(k, <<>>)) : k \in DocKinds \ {"mapping"} }

InitFixer == InitIaC(Fixers)

BatchIds == { BatchId(t) : t \in 0..MaxTime }

\* a client that calls the fixer one call at a time, on a disk that works
Sequential == rolling.pc = "idle"

NextFixer ==
    \/ Sequential /\ \E fl \in FindingLists, target \in Targets : Fix(fl, target)
    \/ \E batch_id \in BatchIds : Rollback(batch_id)
    \/ RollbackCopy({})
    \/ Sequential /\ Tick

SpecFixer == InitFixer /\ [][NextFixer]_vars

\* the fixer called by the pipeline thread (fix) while the API serves a
\* rollback, on a disk that may fail while the rollback copies: one fixer,
\* fix calls on one finding at most
InitRollback == InitIaC({ AutoFixer(PlainConfig, IacCatalogFile) })

NextRollback ==
    \/ \E fl \in ListsOf(PairFindings, 1), target \in Targets : Fix(fl, target)
    \/ \E batch_id \in BatchIds : Rollback(batch_id)
    \/ \E io_errors \in SUBSET FileNames : RollbackCopy(io_errors)
    \/ Tick

SpecRollback == InitRollback /\ [][NextRollback]_vars

\* the findings a scan of the pipeline may report
ScanFindings == { f \in IacFindings : f.id \in {1, 2, 7} }

\* what a scan may return: the results of its scanners
ScanOutcomes ==
    { <<ScanResult("checkov", "passed", <<>>)>>,
      <<ScanResult("checkov", "error", <<>>)>> }
    \cup { <<ScanResult("checkov", "failed", fl)>> :
               fl \in ListsOf(ScanFindings, MaxScanFindings) \ {<<>>} }

InitPipeline == InitIaC({ AutoFixer(c, IacCatalogFile) : c \in NodeConfigs })

NextPipeline ==
    \/ \E target \in Targets, scan_results \in ScanOutcomes : PipeScan(target, scan_results)
    \/ PipeFix
    \/ \E verify_results \in ScanOutcomes : PipeVerify(verify_results)
    \/ \E deploy_status \in {"success", "failed"} : PipeDeploy(deploy_status)
    \/ Tick

SpecPipeline == InitPipeline /\ [][NextPipeline]_vars

\* the node with both callers of process_deployment at work: the watcher
\* thread and the background task of the scan-trigger API, on one fixer
\* configuration and the scans of one finding at most
TriggerConfig ==
    [ enabled |-> TRUE, require_approval |-> {}, variables |-> NodeVariables,
      deploy_enabled |-> TRUE ]

TriggerOutcomes ==
    { <<ScanResult("checkov", "passed", <<>>)>> }
    \cup { <<ScanResult("checkov", "failed", <<f>>)>> : f \in { g \in ScanFindings : g.id = 1 } }

InitTrigger == InitIaC({ AutoFixer(TriggerConfig, IacCatalogFile) })

NextTrigger ==
    \/ \E who \in Callers, target \in Targets, scan_results \in TriggerOutcomes :
          ScanPhase(who, target, scan_results)
    \/ \E who \in Callers : FixPhase(who)
    \/ \E who \in Callers, verify_results \in TriggerOutcomes : VerifyPhase(who, verify_results)
    \/ \E who \in Callers, deploy_status \in {"success", "failed"} :
          DeployPhase(who, deploy_status)
    \/ Tick

SpecTrigger == InitTrigger /\ [][NextTrigger]_vars

\* the cloud application scanning: an empty findings table, a control plane
\* with or without a world-open rule
InitScan ==
    /\ catalog = _load_catalog(CatalogFile, EnvSet)
    /\ findings = <<>> /\ remediation_runs = <<>> /\ nreq = 0 /\ scans = NoScans
    /\ cp \in { BaseCp, [BaseCp EXCEPT !.rules = {}] }
    /\ req = IdleReq(cp)
    /\ InitOthersIdle

NextScan ==
    \/ Startup
    \/ TickFires
    \/ ManualScan
    \/ \E i \in 1..(MaxTicks + MaxManualScans + 1), conn_ok \in BOOLEAN : ScanCollect(i, conn_ok)
    \/ \E i \in 1..(MaxTicks + MaxManualScans + 1) : ScanInsert(i)

SpecScan == InitScan /\ [][NextScan]_vars

\* the scanners and the deployer over every way their commands can end
ProcessOutcomes == { Exited(0), Exited(1), TimedOut }
DeployCommands == {"init", "validate", "plan", "apply", "check_syntax", "run_playbook",
                   "output"}
DeployRuns ==
    { run \in [ DeployCommands -> ProcessOutcomes \cup {Exited(2)} ] :
        /\ \A c \in DeployCommands \ {"plan"} : run[c] # Exited(2)
        /\ run["output"] # Exited(1) }
Sources == [ tf_files : BOOLEAN, playbooks : BOOLEAN, stale_plan : BOOLEAN,
             tf_subdir : BOOLEAN ]
DeployerConfigs == [ enabled : BOOLEAN, auto_apply : BOOLEAN, verify_enabled : BOOLEAN ]

InitProcesses == InitIaC({ AutoFixer(PlainConfig, IacCatalogFile) })

\* one call per behaviour: each call is looked at by itself
FirstCall == proc.op = "none"

NextProcesses ==
    \/ FirstCall /\ \E scanner \in {"checkov", "yamllint"}, p \in ProcessOutcomes,
                        parse_raises \in BOOLEAN, fl \in ListsOf(ScanFindings, 1) :
                        ScannerScan(scanner, p, parse_raises, fl)
    \/ FirstCall /\ \E src \in Sources, cfg \in DeployerConfigs, run \in DeployRuns :
                        Deploy(src, cfg, run)

SpecProcesses == InitProcesses /\ [][NextProcesses]_vars

(***************************************************************************)
(* Properties of the cloud remediation endpoint (checked under Spec).      *)
(***************************************************************************)
Status == findings[1].status

\* the request was admitted: it created its remediation_runs record
Admitted == req.run_id # 0

\* execute_runbook has returned for the request being served
Executed == Admitted /\ req.pc \in {"executed", "verifying", "done"}

\* no control-plane call of the request raised
NoFault == ~req.raised /\ ~req.verify_raised

\* the control-plane objects, without the id allocator
CpObjects(c) == [ sgs |-> c.sgs, rules |-> c.rules, servers |-> c.servers,
                  fips |-> c.fips, ports |-> c.ports ]

IsSgRunbook == StartsWith(req.runbook_id, <<"rb", "sg">>)
IsFipRunbook == req.runbook_id = <<"rb", "detach", "floating", "ip">>
IsPortRunbook == req.runbook_id = <<"rb", "enable", "port", "security">>

\* C1: a finding becomes resolved only in a request whose execute_runbook
\* returned success and whose verify_remediation then returned true; while the
\* run is in progress it is not resolved, and a request whose execution
\* succeeded and whose verification returned false ends in verify_failed.
C1_ResolvedOnlyWhenVerified ==
    /\ req.pc \in {"executing", "executed", "verifying"} => Status # "resolved"
    /\ (req.pc = "done" /\ req.found /\ ~Admitted) => Status = req.before_status
    /\ (req.pc = "done" /\ Admitted) =>
          /\ Status = "resolved" =>
                req.result.status = "success" /\ req.verify_ok = "true"
          /\ (req.result.status = "success" /\ req.verify_ok = "false")
                => Status = "verify_failed"

C1_Witness ==
    /\ req.pc = "done" /\ Admitted
    /\ req.result.status = "success" /\ req.verify_ok = "false"
    /\ Status = "verify_failed"

AllowedTransition(from, to, force) ==
    \/ from = "approved" /\ to = "remediating"
    \/ from = "remediating" /\ to = "remediated_unverified"
    \/ from = "remediating" /\ to = "remediation_failed"
    \/ from = "remediated_unverified" /\ to = "resolved"
    \/ from = "remediated_unverified" /\ to = "verify_failed"
    \/ from = "new" /\ to = "remediating" /\ force

\* C2: every change of a finding's status is one of approved->remediating,
\* remediating->remediated_unverified, remediating->remediation_failed,
\* remediated_unverified->resolved, remediated_unverified->verify_failed, or
\* new->remediating under the force flag; resolved, verify_failed,
\* remediation_failed and rejected are never left.
C2_OnlyLifecycleTransitions ==
    [][ findings'[1].status # findings[1].status =>
            AllowedTransition(findings[1].status, findings'[1].status, req.force) ]_vars

\* the run before this one was of the same runbook on the same finding and
\* its execution returned success
PreviousRunSucceeded ==
    /\ req.run_id > 1
    /\ remediation_runs[req.run_id - 1].finding_id = req.finding_id
    /\ remediation_runs[req.run_id - 1].runbook_id = req.runbook_id
    /\ remediation_runs[req.run_id - 1].status \in {"verified", "verify_failed"}

\* C4: executing a control-plane runbook again on the same finding after a run
\* that succeeded returns success again (no control-plane call raising) and
\* leaves every rule, address and port as it was, creating and deleting
\* nothing; a security-group run reports the world-open rule as already fixed.
C4_SecondRunIdempotent ==
    (Executed /\ PreviousRunSucceeded /\ ~req.raised
        /\ (IsSgRunbook \/ IsFipRunbook \/ IsPortRunbook))
    => /\ req.result.status = "success"
       /\ cp = req.cp_before
       /\ IsSgRunbook =>
             req.result.stdout[1] = Line("No world-open rule found (already fixed?)", "")

C4_Witness ==
    /\ Executed /\ PreviousRunSucceeded /\ ~req.raised /\ IsSgRunbook
    /\ req.pc = "done"
    /\ req.result.status = "success"
    /\ remediation_runs[1].stdout[1] = Line("Deleted world-open rule", "")

\* no runbook of the catalog lists the finding's canonical type
NoRunbookMatches ==
    \A i \in 1..Len(catalog) :
        req.finding.type \notin (catalog[i].finding_types \cup catalog[i].aliases)

\* the request is one the endpoint must refuse before execution
RefusalCase ==
    /\ req.found
    /\ \/ ~req.force /\ req.before_status # "approved"
       \/ NoRunbookMatches
       \/ ~req.conn_ok

\* C5: a request refused before execution (finding not approved and no force
\* flag, or no runbook for its canonical type, or no control-plane connection)
\* leaves the finding's status as it was, creates no remediation_runs record
\* and makes no control-plane call.
C5_RefusalChangesNothing ==
    (req.pc # "idle" /\ RefusalCase)
    => /\ req.pc = "done"
       /\ ~Admitted
       /\ Status = req.before_status
       /\ Len(remediation_runs) = req.runs_before
       /\ req.calls = {}
       /\ cp = req.cp_before

C5_Witness ==
    /\ req.pc = "done" /\ req.found
    /\ ~req.force /\ req.before_status = "new"
    /\ ~NoRunbookMatches /\ req.conn_ok
    /\ req.response.code = 400

\* C6: a rejected finding is terminal: whatever the force flag, a remediation
\* request on it executes no runbook, makes no control-plane call and leaves
\* its status rejected.
C6_RejectedIsTerminal ==
    (req.pc # "idle" /\ req.found /\ req.before_status = "rejected")
    => /\ ~Admitted
       /\ req.calls = {}
       /\ Status = "rejected"

\* the finding gives the runbook family's identifier neither in details_json
\* nor as resource_id
IdentifierMissing ==
    LET details == ParseDetails(req.finding.details_json)
    IN  /\ req.finding.resource_id = ""
        /\ \/ IsSgRunbook /\ details.sg_id = ""
           \/ IsFipRunbook /\ details.server_id = ""
           \/ IsPortRunbook /\ details.port_id = ""

MissingIdMessage ==
    IF IsSgRunbook THEN "Missing security group ID"
    ELSE IF IsFipRunbook THEN "Missing server ID"
    ELSE "Missing port ID"

\* C7: when the finding supplies neither the family's identifier in
\* details_json (sg_id, server_id, port_id) nor a resource_id, execute_runbook
\* returns failed with a stderr naming the missing identifier, makes no
\* control-plane call, and the endpoint sets the finding to remediation_failed.
C7_MissingIdentifierFails ==
    (Executed /\ IdentifierMissing)
    => /\ req.result.status = "failed"
       /\ req.result.stderr = <<Line(MissingIdMessage, "")>>
       /\ req.calls = {}
       /\ cp = req.cp_before
       /\ req.pc # "verifying"
       /\ req.pc = "done" => Status = "remediation_failed"

C7_Witness ==
    /\ Executed /\ IdentifierMissing /\ IsFipRunbook
    /\ req.pc = "done"
    /\ Status = "remediation_failed"

SshRunbook == <<"rb", "sg", "restrict", "ssh">>

\* the group the finding's details name
NamedGroup == ParseDetails(req.finding.details_json).sg_id

\* the world-open ingress tcp rules of exactly this port on the group
WorldOpenRules(c, sg, port) == { r \in c.rules : r.sg = sg /\ WorldRuleMatches(r, port) }

\* the admin CIDR the SSH runbook is configured with
ConfiguredAdminCidr ==
    LET p == CatalogGet(catalog, SshRunbook).params.admin_cidr
    IN  IF p = "" THEN DEFAULT_ADMIN_CIDR ELSE p

\* a served, admitted request on a legacy SG_OPEN_SSH finding whose details
\* name an existing group that held a world-open tcp/22 rule
SshScenario ==
    /\ req.pc = "done" /\ Admitted
    /\ req.finding.raw_type = "SG_OPEN_SSH"
    /\ NamedGroup \in req.cp_before.sgs
    /\ WorldOpenRules(req.cp_before, NamedGroup, SSH_PORT) # {}

SshOutcome ==
    /\ req.finding.type = "SG_WORLD_OPEN_SSH"
    /\ req.runbook_id = SshRunbook
    /\ WorldOpenRules(cp, NamedGroup, SSH_PORT) = {}
    /\ WorldOpenRules(req.cp_before, NamedGroup, SSH_PORT) \cap cp.rules = {}
    /\ \E r \in cp.rules : r.sg = NamedGroup /\ AdminRuleMatches(r, ConfiguredAdminCidr, SSH_PORT)
    /\ Status = "resolved"

\* the group held a world-open ingress tcp rule, other than the tcp/22 one,
\* whose lower port is one verification looks for
OtherSensitiveRule ==
    \E r \in req.cp_before.rules :
        /\ r.sg = NamedGroup /\ r.direction = "ingress"
        /\ r.remote_ip_prefix = WORLD_CIDR /\ r.protocol = "tcp"
        /\ r.port_range_min \in VerifyPorts
        /\ ~WorldRuleMatches(r, SSH_PORT)

RefusalCause ==
    IF ~req.force /\ req.before_status # "approved" THEN "not approved"
    ELSE IF NoRunbookMatches THEN "no runbook"
    ELSE IF ~req.conn_ok THEN "no connection"
    ELSE "none"

\* C16: the three refusals of a remediation request (finding not approved and
\* no force flag; no runbook matching the finding; control-plane connection
\* failure) reach the caller as three pairwise different results: the status
\* code of the response tells which of the three happened (400, 404, 500).
C16_RefusalsDistinguishable ==
    (req.pc = "done" /\ req.found /\ ~Admitted) =>
        /\ RefusalCause # "none"
        /\ RefusalCause = "not approved" <=> req.response.code = 400
        /\ RefusalCause = "no runbook" <=> req.response.code = 404
        /\ RefusalCause = "no connection" <=> req.response.code = 500
        /\ RefusalCause = "not approved" <=>
              req.response.detail = "Finding status must be 'approved' to remediate"
        /\ RefusalCause = "no runbook" <=>
              req.response.detail = "No runbook found for finding type"
        /\ RefusalCause = "no connection" <=>
              req.response.detail = "OpenStack connection failed"

C16_Witness ==
    /\ req.pc = "done" /\ req.found /\ ~Admitted
    /\ req.force /\ req.before_status = "new"
    /\ ~NoRunbookMatches
    /\ ~req.conn_ok
    /\ req.response.code = 500
    /\ Len(remediation_runs) = 0

\* the canonical type documented for each legacy type
DocumentedCanonical ==
    [ SG_OPEN_SSH |-> "SG_WORLD_OPEN_SSH", SG_OPEN_RDP |-> "SG_WORLD_OPEN_RDP",
      NOVA_SERVER_ERROR |-> "INSTANCE_ERROR_STATE",
      CINDER_VOLUME_ERROR |-> "VOLUME_ERROR_STATE" ]

\* the raw types of the findings in the table
RawTypes == { findings[i].ftype : i \in DOMAIN findings }

\* C18: get_canonical_type maps every raw type of the alias table to its
\* documented canonical type and returns every other string unchanged:
\* canonicalize(x) = x for every string x that is not an alias key.
C18_CanonicalizeAliasOrIdentity ==
    \A x \in RawTypes :
        /\ x \in DOMAIN DocumentedCanonical => get_canonical_type(x) = DocumentedCanonical[x]
        /\ x \notin DOMAIN DocumentedCanonical => get_canonical_type(x) = x

\* the run statuses after which the endpoint writes the record no more
TerminalRunStatuses == {"failed", "verified", "verify_failed"}

\* in this step every record that changes is the record of the request being
\* served and was in none of the statuses given
OnlyOwnOpenRecordChanges(terminal) ==
    \A i \in 1..Len(remediation_runs) :
        remediation_runs'[i] # remediation_runs[i]
        => /\ i = req.run_id
           /\ remediation_runs[i].status \notin terminal

\* the table grows by the one record of a request that is admitted, and by
\* nothing else
OneRecordPerAttempt ==
    /\ Len(remediation_runs') =
          Len(remediation_runs) + (IF req'.pc = "started" THEN 1 ELSE 0)
    /\ req'.pc = "done" =>
          Len(remediation_runs') = req'.runs_before + (IF req'.run_id # 0 THEN 1 ELSE 0)

Verified == req.verify_ok # "none"

\* the object the verifier looks up: its identifier and whether it exists
VerifiedObject ==
    LET details == ParseDetails(req.finding.details_json)
    IN  IF IsSgRunbook
        THEN [ id |-> OrStr(details.sg_id, req.finding.resource_id),
               exists |-> OrStr(details.sg_id, req.finding.resource_id) \in cp.sgs ]
        ELSE IF IsFipRunbook
        THEN [ id |-> OrStr(details.server_id, req.finding.resource_id),
               exists |-> OrStr(details.server_id, req.finding.resource_id) \in cp.servers ]
        ELSE [ id |-> OrStr(details.port_id, req.finding.resource_id),
               exists |-> PortState(cp, OrStr(details.port_id, req.finding.resource_id))
                            \in {"on", "off"} ]

\* the insecure condition of the finding's family is absent from the object
ConditionAbsent ==
    IF IsSgRunbook THEN \A r \in Reported(cp) : r.sg # VerifiedObject.id
    ELSE IF IsFipRunbook THEN \A a \in FipAddrs : FipState(cp, a) # VerifiedObject.id
    ELSE PortState(cp, VerifiedObject.id) = "on"

\* C26: verify_remediation returns true for a security-group, floating-address
\* or port-security finding only if the re-queried object exists and shows
\* the insecure condition absent (no ingress 0.0.0.0/0 tcp rule on a port the
\* scanner treats as sensitive; no floating address on the server;
\* port_security_enabled true), and it returns false when the identifier is
\* missing, the object is not found or the query raises.
C26_VerifySound ==
    (Verified /\ (IsSgRunbook \/ IsFipRunbook \/ IsPortRunbook))
    => /\ req.verify_ok = "true" => (VerifiedObject.exists /\ ConditionAbsent)
       /\ (VerifiedObject.id = "" \/ ~VerifiedObject.exists \/ req.verify_raised)
             => req.verify_ok = "false"

\* the rules the executed runbook deleted or created
TouchedRules ==
    (req.cp_before.rules \ cp.rules) \cup (cp.rules \ req.cp_before.rules)

\* the port the runbook id tag or the finding's details give, as a set
DerivedPorts ==
    LET details == ParseDetails(req.finding.details_json)
    IN  IF HasToken(req.runbook_id, "ssh") THEN {SSH_PORT}
        ELSE IF HasToken(req.runbook_id, "rdp") THEN {RDP_PORT}
        ELSE IF HasToken(req.runbook_id, "db")
        THEN {details.port_min, details.port_max} \ {0}
        ELSE {}

\* C27: a security-group runbook deletes and creates rules only on the port
\* its id tag gives (ssh 22, rdp 3389) or, for the database runbook, on the
\* port of the finding's details; a database runbook without a port in the
\* details fails before any control-plane call; no rule is touched on a port
\* that neither the tag nor the details give
C27_PortDerived ==
    (Executed /\ IsSgRunbook)
    => /\ \A r \in TouchedRules :
             r.port_range_min \in DerivedPorts /\ r.port_range_max \in DerivedPorts
       /\ (HasToken(req.runbook_id, "db") /\ DerivedPorts = {})
             => (req.result.status = "failed" /\ req.calls = {})

\* the addresses listed in the finding's details
ListedAddrs == ParseDetails(req.finding.details_json).floating_ips

\* the lines of a stream that are about address a
LinesAbout(stream, a) == { i \in 1..Len(stream) : stream[i].arg = a }

\* the detach of address a raised
DetachRaised(a) ==
    \E i \in LinesAbout(req.result.stderr, a) : req.result.stderr[i].msg = "Error detaching"

\* the runbook found its server and entered the loop over the addresses
LoopReached ==
    LET server_id == OrStr(ParseDetails(req.finding.details_json).server_id,
                           req.finding.resource_id)
    IN  /\ server_id # "" /\ server_id \in req.cp_before.servers
        /\ req.result.stderr # <<Line("exception", "find_server")>>

\* the status is failed iff the detach of a listed address raised
FailedIffDetachRaised ==
    req.result.status = "failed" <=> \E i \in 1..Len(ListedAddrs) : DetachRaised(ListedAddrs[i])

\* every listed address is attempted, whatever happened to the ones before:
\* it has its error line, or its progress line in stdout and is not attached
EveryAddressHandled ==
    \A i \in 1..Len(ListedAddrs) :
        LET a == ListedAddrs[i]
        IN  IF DetachRaised(a)
            THEN LinesAbout(req.result.stdout, a) = {}
            ELSE /\ \E k \in LinesAbout(req.result.stdout, a) :
                       req.result.stdout[k].msg =
                          IF NeedsDetach(FipState(req.cp_before, a))
                          THEN "Detached floating IP"
                          ELSE "Floating IP not found or already detached"
                 /\ ~NeedsDetach(FipState(cp, a))

\* C28 as stated: the status of the floating-address runbook is failed iff at
\* least one detach raised
C28_FipFailedIffRaised_AsStated ==
    (Executed /\ IsFipRunbook) => FailedIffDetachRaised

\* C28: once the floating-address runbook has its server, it attempts every
\* listed address even after an earlier detach raised; an address that is not
\* found or has no port gives a progress line and no error; the status is
\* failed iff at least one detach raised, and stdout then still holds the
\* progress lines of the addresses handled without error
C28_FipAllAttempted ==
    (Executed /\ IsFipRunbook /\ LoopReached)
    => /\ EveryAddressHandled
       /\ FailedIffDetachRaised

C28_Witness ==
    /\ Executed /\ IsFipRunbook /\ LoopReached
    /\ Len(ListedAddrs) = 2
    /\ DetachRaised(ListedAddrs[1])
    /\ req.result.status = "failed"
    /\ req.result.stdout = <<Line("Detached floating IP", ListedAddrs[2])>>
    /\ req.cp_before.fips[ListedAddrs[2]] = "srv-1" /\ cp.fips[ListedAddrs[2]] = "detached"

\* the admin_cidr parameter of the executed runbook is an unresolved placeholder
UnresolvedAdminCidr ==
    /\ req.runbook_id \in CatalogIds(catalog)
    /\ IsPlaceholder(CatalogGet(catalog, req.runbook_id).params.admin_cidr)

\* C29: a security-group runbook whose admin_cidr parameter is still an
\* unresolved placeholder returns failed and leaves the control plane as it
\* was; no rule carries the placeholder text as its CIDR
C29_PlaceholderIsMissing ==
    (Executed /\ IsSgRunbook /\ UnresolvedAdminCidr)
    => /\ req.result.status = "failed"
       /\ cp = req.cp_before
       /\ \A r \in cp.rules : ~IsPlaceholder(r.remote_ip_prefix)

IsOsRunbook == StartsWith(req.runbook_id, <<"rb", "os">>)

\* C30: execute_runbook returns failed, never success, for every runbook
\* whose id begins with rb_os_, whatever the finding, the inventory and the
\* force flag; the control plane is not called, and the finding of such a
\* request is never remediated_unverified or resolved
C30_OsRunbookFails ==
    (Admitted /\ IsOsRunbook)
    => /\ Status \notin {"remediated_unverified", "resolved"}
       /\ Executed => /\ req.result.status = "failed"
                       /\ req.calls = {} /\ cp = req.cp_before
       /\ req.pc = "done" => Status = "remediation_failed"

C30_Witness ==
    /\ Admitted /\ IsOsRunbook /\ req.pc = "done" /\ req.force
    /\ req.result.stderr = <<Line("OS runbooks require Ansible playbook implementation", "")>>
    /\ remediation_runs[req.run_id].status = "failed"
    /\ Status = "remediation_failed"

\* the canonical types verify_remediation has a verifier for
VerifiedTypes ==
    {"SG_WORLD_OPEN_SSH", "SG_WORLD_OPEN_RDP", "SG_WORLD_OPEN_DB_PORT",
     "FIP_EXPOSED_INSTANCE", "PORT_SECURITY_DISABLED"}

\* C31: for a finding whose canonical type is none of the security-group,
\* floating-address or port-security types, verify_remediation returns true
\* and queries nothing on the control plane, whatever the control plane would
\* have answered
C31_NoVerifierIsTrue ==
    /\ (Verified /\ req.finding.type \notin VerifiedTypes)
          => (req.verify_ok = "true" /\ req.verify_calls = {} /\ ~req.verify_raised)
    /\ req.finding.type \notin VerifiedTypes
          => \A fault \in VerifyFaults :
                verify_remediation(req.finding, cp, fault) = Verdict(TRUE, {}, FALSE)

C31_Witness ==
    /\ Verified /\ req.finding.type = "SG_WORLD_OPEN_TELNET"
    /\ req.verify_ok = "true" /\ req.verify_calls = {}
    /\ req.pc = "done" /\ Status = "resolved"

\* C34: the endpoint answers status success only if the finding ended the
\* request resolved; a request whose verification failed is not answered as
\* a successful remediation
C34_SuccessMeansResolved ==
    (req.pc = "done" /\ req.response.code = 200 /\ req.response.status = "success")
    => (Status = "resolved" /\ req.verify_ok = "true")

\* the rules the executed runbook deleted, and the rules it created
DeletedRules == req.cp_before.rules \ cp.rules
CreatedRules == cp.rules \ req.cp_before.rules

\* the rule is an ingress tcp rule of the finding's group on the runbook's port
OnRunbookTarget(r) ==
    LET details == ParseDetails(req.finding.details_json)
        port == SgPort(req.runbook_id, details)
    IN  /\ r.sg = OrStr(details.sg_id, req.finding.resource_id)
        /\ r.direction = "ingress" /\ r.protocol = "tcp"
        /\ r.port_range_min = port /\ r.port_range_max = port

\* C37: one execution of a security-group runbook deletes at most one rule
\* and creates at most one rule, both ingress tcp rules of the group the
\* finding names and on the runbook's port; every other rule (other groups,
\* ports, protocols, directions) and every other object of the control plane
\* is left as it was
C37_SgRunbookFrame ==
    (Executed /\ IsSgRunbook)
    => /\ Cardinality(DeletedRules) <= 1 /\ Cardinality(CreatedRules) <= 1
       /\ \A r \in DeletedRules \cup CreatedRules : OnRunbookTarget(r)
       /\ \A r \in DeletedRules : r.remote_ip_prefix = WORLD_CIDR
       /\ cp.sgs = req.cp_before.sgs /\ cp.servers = req.cp_before.servers
       /\ cp.fips = req.cp_before.fips /\ cp.ports = req.cp_before.ports

C37_Witness ==
    /\ Executed /\ IsSgRunbook
    /\ Cardinality(DeletedRules) = 1 /\ Cardinality(CreatedRules) = 1
    /\ \E r \in cp.rules \cap req.cp_before.rules :
          r.sg = "sg-1" /\ r.remote_ip_prefix = WORLD_CIDR /\ ~OnRunbookTarget(r)

(***************************************************************************)
(* Properties of the periodic cloud scan (checked under SpecScan).         *)
(***************************************************************************)
\* the step is a tick of the interval job
Ticked == scans'.fired = scans.fired + 1

\* C23: the periodic scan never has two ticks running at once; a tick that
\* fires while the previous tick's run_scan is still executing is skipped
\* (nothing is started for it then) and it is not queued: no run_scan is
\* ever started for it later, every tick's run starts at the tick or never.
C23_TicksNeverOverlap ==
    /\ [](Instances(scans) <= 1)
    /\ [](scans.submitted + scans.skipped = scans.fired)
    /\ [][ /\ (Ticked /\ Instances(scans) = 1)
               => /\ scans'.runs = scans.runs
                  /\ scans'.skipped = scans.skipped + 1
           /\ (Ticked /\ Instances(scans) = 0)
               => /\ Instances(scans') = 1
                  /\ scans'.skipped = scans.skipped
           /\ ~Ticked => /\ Instances(scans') <= Instances(scans)
                         /\ scans'.skipped = scans.skipped ]_vars

\* a tick was skipped while the previous tick's scan is still running, and a
\* later tick found the job free again
C23_Witness ==
    /\ scans.fired = 3 /\ scans.skipped = 1 /\ scans.submitted = 2
    /\ Instances(scans) = 1

(***************************************************************************)
(* Properties of the external commands (checked under SpecProcesses).      *)
(***************************************************************************)
\* C24: a timeout of an external process is surfaced as a failure: a scanner
\* whose command timed out yields a result with status error, and a
\* deployment in which a terraform or ansible command timed out never ends
\* in status success.
C24_TimeoutIsFailure ==
    /\ (proc.op = "scan" /\ proc.timeouts # {}) => proc.status = "error"
    /\ (proc.op = "deploy" /\ proc.timeouts # {}) => proc.status # "success"

(***************************************************************************)
(* Properties of the pipeline (checked under SpecPipeline).                *)
(***************************************************************************)
\* the count that governs the deploy decision of a run: the re-scan's when a
\* re-scan ran, the initial scan's otherwise
RemainingCount(results) ==
    IF results.rescan_count # NoCount THEN results.rescan_count
    ELSE results.findings_count

\* deployer.deploy was invoked in the run
Deployed(results) == results.deployment # ""

\* C3: a pipeline run invokes the deploy phase only when its remaining-finding
\* count (the verification re-scan's count when a re-scan ran, the initial
\* scan's otherwise) is exactly zero; deploy is invoked by no run with a
\* nonzero count.
C3_DeployOnlyWhenClean ==
    /\ \A i \in 1..Len(scan_history) :
          Deployed(scan_history[i]) => RemainingCount(scan_history[i]) = 0
    /\ deploys = Cardinality({ i \in 1..Len(scan_history) : Deployed(scan_history[i]) })

C3_Witness ==
    /\ \E i \in 1..Len(scan_history) :
          /\ Deployed(scan_history[i])
          /\ scan_history[i].findings_count > 0
          /\ scan_history[i].rescan_count = 0
    /\ \E j \in 1..Len(scan_history) :
          /\ ~Deployed(scan_history[j])
          /\ scan_history[j].rescan_count > 0
          /\ scan_history[j].rescan_count < scan_history[j].findings_count
    /\ deploys = 1

(***************************************************************************)
(* Properties of the fixer (checked under SpecFixer).                      *)
(***************************************************************************)
\* C9: after fix(findings, path) returned a batch with a recorded backup,
\* rollback(batch.id) returns true and leaves the tree at path identical to
\* its content immediately before that fix call.
C9_RollbackRestores ==
    last.op = "rollback" =>
        \A i \in 1..Len(fix_history) :
            (fix_history[i].id = last.batch_id /\ fix_history[i].backup_path # NoPath)
            => /\ last.ok
               /\ fs.trees[fix_history[i].target_path] = fix_history[i].before

\* the approval gate as the configuration states it
GateConfigured(runbook) ==
    /\ ~runbook.auto_approve
    /\ runbook.severity \in {"HIGH", "CRITICAL"}
    /\ \E cat \in config.require_approval : HasToken(runbook.id, cat)

\* C10: in a fix call that got past its backup, every fixable finding whose
\* runbook is HIGH or CRITICAL, not auto-approved and of a configured
\* require-approval category yields an action in status requires_approval for
\* which no file is written.
C10_ApprovalGate ==
    (last.op = "fix" /\ last.backup_taken) =>
        \A i \in 1..Len(last.findings) :
            LET rb == find_runbook(config.catalog, last.findings[i])
            IN  (rb # NoIacRunbook /\ GateConfigured(config.catalog[rb]))
                => /\ \E k \in 1..Len(last.batch.actions) :
                         /\ last.batch.actions[k].finding_id = last.findings[i].id
                         /\ last.batch.actions[k].status = "requires_approval"
                         /\ ~last.batch.actions[k].written
                   /\ Len(last.findings) = 1 =>
                         fs.trees[last.target] = last.batch.before

\* a step in which fix() was called: last records the call
FixStep ==
    /\ last'.op = "fix"
    /\ now' = now /\ rolling' = rolling
    /\ <<fs, fix_history, last>>' # <<fs, fix_history, last>>

\* copytree of the target to the backup path of this second cannot succeed
BackupFails(target) ==
    \/ ~fs.trees[target].exists
    \/ BackupExists(fs, BackupPath(target, now))

\* C11: in fix(), the backup copy of the target is taken before any file of
\* the target is written (the backup holds the tree as it was when fix was
\* called), and when taking the backup fails the call raises with no action
\* applied, no file of the target modified and no batch recorded.
C11_BackupBeforeWrites ==
    [][ (FixStep /\ config.enabled) =>
            LET target == last'.target
                path == BackupPath(target, now)
            IN  /\ BackupFails(target) =>
                      /\ last'.raised
                      /\ last'.batch = NoBatch
                      /\ fs' = fs
                      /\ fix_history' = fix_history
                /\ ~BackupFails(target) =>
                      /\ BackupExists(fs', path)
                      /\ BackupTree(fs', path) = fs.trees[target]
                /\ fs'.trees[target] # fs.trees[target] =>
                      /\ BackupExists(fs', path)
                      /\ BackupTree(fs', path) = fs.trees[target] ]_vars

C11_Witness ==
    /\ last.op = "fix" /\ last.raised /\ ~last.backup_taken
    /\ config.enabled
    /\ fs.trees[last.target].exists
    /\ BackupExists(fs, BackupPath(last.target, now))
    /\ \E i \in 1..Len(fix_history) :
          /\ fix_history[i].target_path = last.target
          /\ \E k \in 1..Len(fix_history[i].actions) : fix_history[i].actions[k].written

\* every action of every recorded batch
RecordedActions ==
    UNION { { fix_history[i].actions[k] : k \in 1..Len(fix_history[i].actions) } :
              i \in 1..Len(fix_history) }

\* the fix type of the action produced content (fixed_content was assigned)
ProducedContent(a) == a.fixed_content # NoFile

PastBackup == last.op = "fix" /\ last.backup_taken

\* C13: in one fix batch the failure of one action, for any cause, does not
\* prevent the remaining (finding, runbook) pairs from being attempted: fix()
\* returns a batch holding one action per fixable finding, in order, and the
\* batch status is completed iff no action is FAILED and failed otherwise.
C13_ActionIsolation ==
    PastBackup =>
        LET fixable == analyze(config.catalog, last.findings)
        IN  /\ ~last.raised
            /\ Len(last.batch.actions) = Len(fixable)
            /\ \A k \in 1..Len(fixable) :
                  k <= Len(last.batch.actions) =>
                      last.batch.actions[k].finding_id = fixable[k][1].id
            /\ last.batch.status =
                  (IF failed_actions(last.batch) = 0 THEN "completed" ELSE "failed")

\* the runbooks of the IaC catalog whose match criterion the finding satisfies
IacMatches(cat, finding) ==
    { i \in 1..Len(cat) :
        \E j \in 1..Len(cat[i].finding_patterns) :
            PatternMatches(cat[i].finding_patterns[j], finding) }

\* the runbooks of the cloud catalog that list the canonical type
CloudMatches(cat, canonical_type) ==
    { i \in 1..Len(cat) : RunbookMatches(cat[i], canonical_type) }

\* the raw types resolution is tried on
ResolvedTypes ==
    DOMAIN TYPE_ALIASES \cup CANONICAL_TYPES \cup {"API_UNAUTHENTICATED_ACCESS", ""}

\* the actions of the recorded call follow first-match resolution
FirstMatchInFix ==
    (PastBackup /\ ~last.raised) =>
        \A n \in 1..Len(last.findings) :
            LET f == last.findings[n]
                hits == IacMatches(config.catalog, f)
                mine == { k \in 1..Len(last.batch.actions) :
                            last.batch.actions[k].finding_id = f.id }
            IN  /\ hits = {} => mine = {}
                /\ hits # {} =>
                      \E i \in hits :
                          /\ \A j \in hits : i <= j
                          /\ \A k \in mine :
                                last.batch.actions[k].runbook_id = config.catalog[i].id
                          /\ Cardinality(mine) = 1

FirstMatchInCloud ==
    \A t \in ResolvedTypes :
        LET finding == RowToFinding(Row(t, "approved", "", "", NoDetails))
            hits == CloudMatches(catalog, get_canonical_type(IF t = "" THEN "UNKNOWN" ELSE t))
            rb == resolve_runbook(catalog, finding)
        IN  /\ hits = {} => rb = NoRunbook
            /\ hits # {} =>
                  \E i \in hits : (\A j \in hits : i <= j) /\ rb = catalog[i].id

\* C17: runbook resolution returns the first runbook, in catalog declaration
\* order, whose match criterion the finding satisfies (canonical type listed
\* in finding_types or aliases; or a non-empty scanner check id equal to the
\* finding's, or a non-empty regex matching title or description) and none
\* when no runbook matches; it never modifies a catalog, so resolving the same
\* finding again gives the same runbook.
C17_FirstMatchResolution ==
    /\ [](FirstMatchInFix /\ FirstMatchInCloud)
    /\ [][config'.catalog = config.catalog /\ catalog' = catalog]_vars

C17_Witness ==
    /\ PastBackup /\ ~last.raised
    /\ Len(last.findings) = 1
    /\ Cardinality(IacMatches(config.catalog, last.findings[1])) > 1
    /\ Len(last.batch.actions) = 1
    /\ last.batch.actions[1].runbook_id = <<"fix", "sg", "open", "ssh">>
    /\ resolve_runbook(catalog, RowToFinding(Row("SG_OPEN_RDP", "approved", "", "", NoDetails)))
          = <<"rb", "sg", "restrict", "rdp">>

\* the documents that are not a well-formed catalog
BadDocs == { Document(k, <<>>) : k \in DocKinds \ {"mapping"} }

\* C19: when the catalog document is missing or malformed, constructing the
\* cloud remediation engine and constructing the IaC runbook catalog both
\* complete without raising and yield an empty catalog, after which runbook
\* resolution returns none for every finding (a fix call applies no action).
C19_BadCatalogDegrades ==
    /\ config.catalog_doc # "mapping" =>
          /\ config.constructed
          /\ config.catalog = <<>>
          /\ (last.op = "fix" /\ ~last.raised) => last.batch.actions = <<>>
    /\ \A doc \in BadDocs, env \in {EnvSet, EnvUnset} :
          /\ _load_catalog(doc, env) = <<>>
          /\ \A t \in ResolvedTypes :
                resolve_runbook(_load_catalog(doc, env),
                                RowToFinding(Row(t, "approved", "", "", NoDetails)))
                    = NoRunbook

\* the fix types _apply_fix has a branch for
ImplementedTypes == {"regex_replace", "yaml_transform", "yaml_format"}

\* C20: a fix action whose runbook declares an action type the fixer does not
\* implement ends in status SKIPPED and never in FAILED, whatever the state
\* of the target file (runbooks held back by the approval gate apart).
C20_UnsupportedTypeSkipped ==
    PastBackup =>
        \A n \in 1..Len(last.findings) :
            LET f == last.findings[n]
                rb == find_runbook(config.catalog, f)
            IN  ( /\ rb # NoIacRunbook
                  /\ config.catalog[rb].fix.type \notin ImplementedTypes
                  /\ ~GateConfigured(config.catalog[rb]) )
                => \E k \in 1..Len(last.batch.actions) :
                      /\ last.batch.actions[k].finding_id = f.id
                      /\ last.batch.actions[k].status = "skipped"

\* C32: an action for which neither the finding's own path nor the runbook's
\* target-file patterns resolve to an existing file ends FAILED with the
\* message naming the file and writes nothing, whatever the runbook, those
\* under the approval gate included
C32_UnresolvedFileFails ==
    \A i \in 1..Len(fix_history) : \A k \in 1..Len(fix_history[i].actions) :
        LET a == fix_history[i].actions[k]
        IN  a.target_file = NoTargetFile
            => /\ a.status = "failed"
               /\ a.error_message.msg = "Target file not found"
               /\ ~a.written

\* C38: the batches of a fixer's history have pairwise different ids, so a
\* batch id names one batch and one backup
C38_BatchIdsUnique ==
    \A i, j \in 1..Len(fix_history) :
        i # j => fix_history[i].id # fix_history[j].id

(***************************************************************************)
(* Properties of the rollback under concurrent fix calls and a failing     *)
(* disk (checked under SpecRollback).                                      *)
(***************************************************************************)
\* the two trees an atomic rollback could show at the rollback's target
AtomicOutcomes == { rolling.before, BackupTree(fs, rolling.backup_path) }

\* C21: a rollback replaces the target tree atomically: from the moment the
\* rollback has begun to restore until it returns, also when its copy fails
\* part-way, the target tree is never absent nor partly restored; it holds
\* either the content from before the rollback or the complete backup.
C21_RollbackAtomic ==
    /\ [](rolling.pc = "copytree" => fs.trees[rolling.target_path] \in AtomicOutcomes)
    /\ [][(rolling.pc = "copytree" /\ rolling'.pc = "idle")
            => fs'.trees[rolling.target_path] \in AtomicOutcomes]_vars

(***************************************************************************)
(* Properties of concurrent pipeline runs (checked under SpecTrigger).     *)
(* A run whose position is a phase is running that phase or about to.      *)
(***************************************************************************)
\* C25: for one target path, no pipeline phase runs while another pipeline
\* phase on the same target is running, also when one run was started by the
\* file watcher callback and the other by the scan-trigger API: never are
\* both runs inside their phases on the same target.
C25_NoPhaseOverlap ==
    ~ ( /\ pipe.pc # "idle" /\ task.pc # "idle"
        /\ pipe.results.target_path = task.results.target_path )

(***************************************************************************)
(* More properties of the pipeline (checked under SpecPipeline).           *)
(***************************************************************************)
\* the fix phase of the run completed: fixer.fix returned its batch
FixCompleted(results) == results.fix_batch # NoBatch

\* C14: whenever a pipeline run with the deployer enabled does not deploy
\* because findings remain after fixing, its results record holds
\* deployment_skipped stating exactly the number of findings that remained.
C14_SkipReportsCount ==
    \A i \in 1..Len(scan_history) :
        ( /\ config.deploy_enabled
          /\ FixCompleted(scan_history[i])
          /\ ~Deployed(scan_history[i])
          /\ RemainingCount(scan_history[i]) > 0 )
        => scan_history[i].deployment_skipped = RemainingCount(scan_history[i])

\* the step ends a run with a failed record
RunFails ==
    /\ Len(scan_history') > Len(scan_history)
    /\ scan_history'[Len(scan_history) + 1].status = "failed"

\* the step is the fix phase of a run and fixer.fix raised in it
FixPhaseRaises ==
    /\ pipe.pc = "fix" /\ pipe' # pipe
    /\ pipe.all_findings # <<>> /\ config.enabled
    /\ last'.raised

\* C15: if a phase of a pipeline run raises, no later phase of the run is
\* started (no deploy, the run is over), the run's status is failed with the
\* error recorded, the results of the phases that had completed stay in the
\* record, and the record is appended to the scan history exactly once.
C15_FailureKeepsPartialResults ==
    [][ /\ FixPhaseRaises => RunFails
        /\ RunFails =>
              LET n == Len(scan_history)
                  rec == scan_history'[n + 1]
              IN  /\ Len(scan_history') = n + 1
                  /\ SubSeq(scan_history', 1, n) = scan_history
                  /\ rec.error # ""
                  /\ pipe'.pc = "idle"
                  /\ deploys' = deploys
                  /\ rec.deployment = "" /\ rec.deployment_skipped = NoCount
                  /\ rec.id = pipe.results.id
                  /\ rec.scan_results = pipe.results.scan_results
                  /\ rec.findings_count = pipe.results.findings_count
                  /\ rec.fix_batch = pipe.results.fix_batch
                  /\ pipe.pc = "verify" => FixCompleted(rec) ]_vars

C15_Witness ==
    /\ pipe.pc = "idle"
    /\ \E i \in 1..Len(scan_history) :
          /\ scan_history[i].status = "failed"
          /\ scan_history[i].error # ""
          /\ scan_history[i].scan_results # <<>>
          /\ FixCompleted(scan_history[i])
          /\ scan_history[i].verification_results # <<>>
    /\ \E j \in 1..Len(scan_history) :
          /\ scan_history[j].status = "failed"
          /\ scan_history[j].findings_count > 0
          /\ ~FixCompleted(scan_history[j])

\* the scan that determines the remaining-finding count of a run: the
\* verification re-scan when it ran, the initial scan otherwise
GoverningScan(results) ==
    IF results.rescan_count # NoCount THEN results.verification_results
    ELSE results.scan_results

\* C35: a run invokes the deploy phase only if no scanner result of its
\* governing scan has status error
C35_NoDeployAfterScanError ==
    \A i \in 1..Len(scan_history) :
        Deployed(scan_history[i])
        => \A k \in 1..Len(GoverningScan(scan_history[i])) :
              GoverningScan(scan_history[i])[k].status # "error"

(***************************************************************************)
(* One application of a structured-document rule (fixer.py,                *)
(* _apply_yaml_rule), followed from its input to its output; the loop of   *)
(* _apply_yaml_transform hands the output to the next rule.                *)
(***************************************************************************)
YamlValues == {"", "true", "false"}
YamlMappings == [ YamlKeys -> YamlValues ]

\* the modifications a rule may carry under add, ensure and set: nothing, a
\* literal, a placeholder
YamlAdds == { NoMapping, [NoMapping EXCEPT !.no_log = "true"],
              [NoMapping EXCEPT !.become = "false"] }
YamlEnsures == { NoMapping, [NoMapping EXCEPT !.become = "${admin_cidr}"],
                 [NoMapping EXCEPT !.no_log = "true"] }
YamlSets == { NoMapping, [NoMapping EXCEPT !.become = "false"] }

YamlRules ==
    { [NoRule EXCEPT !.when = w, !.when_missing = wm, !.add = a, !.ensure = e, !.set = s] :
        w \in [ YamlKeys -> {"", "*", "true"} ], wm \in {"", "no_log"},
        a \in YamlAdds, e \in YamlEnsures, s \in YamlSets }

InitYaml ==
    /\ CloudIdle
    /\ IacIdle
    /\ race = NoRace /\ watch = NoWatch
    /\ \E data \in YamlMappings :
          yamlrun = [ pc |-> "loaded", data |-> data, rule |-> NoRule, out |-> data,
                      nrules |-> 0 ]

\* data = self._apply_yaml_rule(data, rule) for the next rule of the runbook
YamlApplyRule(rule) ==
    /\ yamlrun.pc \in {"loaded", "applied"}
    /\ yamlrun.nrules < MaxRules
    /\ yamlrun' = [ pc |-> "applied", data |-> yamlrun.out, rule |-> rule,
                    out |-> _apply_yaml_rule(yamlrun.out, rule, NodeVariables),
                    nrules |-> yamlrun.nrules + 1 ]
    /\ UNCHANGED <<cloudVars, pipeVars, fixVars, race, watch>>

\* yaml.dump(data): the transform returns
YamlDump ==
    /\ yamlrun.pc = "applied"
    /\ yamlrun' = [yamlrun EXCEPT !.pc = "dumped"]
    /\ UNCHANGED <<cloudVars, pipeVars, fixVars, race, watch>>

NextYaml ==
    \/ \E rule \in YamlRules : YamlApplyRule(rule)
    \/ YamlDump

SpecYaml == InitYaml /\ [][NextYaml]_vars

\* the conditions of the rule of the application in progress, read off the
\* input: every `when` pair whose value is not "*" equals the mapping's
\* value, and the when_missing key, if given, is absent
YamlConditionsHold ==
    /\ \A k \in YamlKeys :
          yamlrun.rule.when[k] \in {"", "*"} \/ yamlrun.data[k] = yamlrun.rule.when[k]
    /\ \/ yamlrun.rule.when_missing = ""
       \/ yamlrun.data[yamlrun.rule.when_missing] = ""

\* C33: a rule is applied to a mapping iff its conditions hold; when applied,
\* `set` and `ensure` overwrite the key and `add` inserts only a key that is
\* not present; when not applied the mapping is returned unchanged
C33_YamlRuleApplied ==
    yamlrun.pc \in {"applied", "dumped"}
    => LET rule == yamlrun.rule
           data == yamlrun.data
           out == yamlrun.out
       IN  IF YamlConditionsHold
           THEN \A k \in YamlKeys :
                   out[k] = IF rule.set[k] # ""
                            THEN _substitute_variables(rule.set[k], NodeVariables)
                            ELSE IF rule.ensure[k] # ""
                            THEN _substitute_variables(rule.ensure[k], NodeVariables)
                            ELSE IF rule.add[k] # "" /\ data[k] = ""
                            THEN _substitute_variables(rule.add[k], NodeVariables)
                            ELSE data[k]
           ELSE out = data

C33_Witness ==
    /\ yamlrun.pc = "applied"
    /\ yamlrun.rule.when["become"] = "*" /\ yamlrun.data["become"] = "true"
    /\ yamlrun.rule.when_missing = ""
    /\ yamlrun.rule.add["no_log"] = "true" /\ yamlrun.data["no_log"] = "false"
    /\ yamlrun.out["no_log"] = "false"
    /\ yamlrun.rule.ensure["become"] = "${admin_cidr}"
    /\ yamlrun.rule.set = NoMapping
    /\ yamlrun.out["become"] = "10.0.0.0/8"

(***************************************************************************)
(* Two requests POST /api/remediate/{id} for one security-group finding,   *)
(* served by two worker threads (remediate_finding is a plain def, so the  *)
(* framework runs it in its thread pool).  Each database commit and each   *)
(* control-plane call is one step; the rows and the control plane are the  *)
(* shared state, race.runs holds what each thread keeps in its locals.     *)
(***************************************************************************)
RaceRuns == {1, 2}

IdleRun ==
    [ pc |-> "start", force |-> FALSE, run_id |-> 0, runbook_id |-> NoRunbook,
      sg_rules |-> {}, status |-> "" ]

\* the finding of the two requests and the runbook parameters they read
RaceFinding == normalize_finding(RowToFinding(findings[1]))
RaceSgId == OrStr(ParseDetails(RaceFinding.details_json).sg_id, RaceFinding.resource_id)
RacePort(runbook_id) == SgPort(runbook_id, ParseDetails(RaceFinding.details_json))
RaceAdminCidr(runbook_id) ==
    LET params == CatalogGet(catalog, runbook_id).params
    IN  IF params.admin_cidr = "" THEN DEFAULT_ADMIN_CIDR ELSE params.admin_cidr

\* what the control plane answers to create_security_group_rule for a rule
\* whose attributes equal those of a rule it holds: the source does not fix
\* it (Neutron answers 409 Conflict, which the runbook sees as an exception;
\* a control plane without the uniqueness check stores a second rule)
DuplicateAnswers == {"conflict", "created"}

\* the approved finding on sg-1 with the world-open tcp/22 rule, with and
\* without other rules of the group
RaceRuleSets ==
    { rs \in SUBSET RulePool :
        Rule(1, "sg-1", "ingress", WORLD_CIDR, "tcp", SSH_PORT, SSH_PORT) \in rs }

InitRace ==
    /\ \E rs \in RaceRuleSets :
          InitScenario(<<Row("SG_OPEN_SSH", "approved", "sg-1", "json",
                             Details("sg-1", "", "", 0, <<>>)),
                         [BaseCp EXCEPT !.rules = @ \cup rs], EnvSet>>, CatalogFile)
    /\ remediation_runs = <<>> /\ nreq = 0 /\ scans = NoScans
    /\ IacIdle
    /\ yamlrun = NoYamlRun /\ watch = NoWatch
    /\ race = [ pc |-> "racing", runs |-> [ r \in RaceRuns |-> IdleRun ] ]

SetRaceRun(r, run) == race' = [race EXCEPT !.runs[r] = run]

\* the status check, the runbook lookup and INSERT INTO remediation_runs
RaceRequest(r, force) ==
    /\ race.pc = "racing" /\ race.runs[r].pc = "start"
    /\ LET status == findings[1].status
           runbook_id == resolve_runbook(catalog, RaceFinding)
           blocked == ApprovalBlocks(catalog, runbook_id, force, status)
           verdict == Admission(TRUE, force, status, runbook_id, blocked, TRUE)
           inserted == Append(remediation_runs,
                              [ finding_id |-> 1, runbook_id |-> runbook_id,
                                status |-> "started", stdout |-> <<>>, stderr |-> <<>> ])
       IN  IF verdict # Admitted0
           THEN /\ SetRaceRun(r, [race.runs[r] EXCEPT !.pc = "done", !.force = force,
                                                      !.status = "refused"])
                /\ UNCHANGED remediation_runs
           ELSE /\ remediation_runs' = inserted
                /\ SetRaceRun(r, [race.runs[r] EXCEPT !.pc = "started", !.force = force,
                                                      !.runbook_id = runbook_id,
                                                      !.run_id = lastrowid(inserted)])
    /\ UNCHANGED <<catalog, findings, cp, req, nreq, scans>>
    /\ UNCHANGED <<pipeVars, fixVars, yamlrun, watch>>

\* UPDATE findings SET status = 'remediating'
RaceMarkRemediating(r) ==
    /\ race.pc = "racing" /\ race.runs[r].pc = "started"
    /\ findings' = [findings EXCEPT ![1].status = "remediating"]
    /\ SetRaceRun(r, [race.runs[r] EXCEPT !.pc = "executing"])
    /\ UNCHANGED <<catalog, remediation_runs, cp, req, nreq, scans>>
    /\ UNCHANGED <<pipeVars, fixVars, yamlrun, watch>>

\* the runbook returned: UPDATE remediation_runs SET status = result.status
RaceReturn(r, status, c) ==
    /\ cp' = c
    /\ remediation_runs' = [remediation_runs EXCEPT ![race.runs[r].run_id].status = status]
    /\ SetRaceRun(r, [race.runs[r] EXCEPT !.pc = "executed", !.status = status])

\* sg = conn.network.find_security_group(sg_id): the thread's copy of the rules
RaceFind(r) ==
    /\ race.pc = "racing" /\ race.runs[r].pc = "executing"
    /\ IF MissingId(RaceSgId) \/ RacePort(race.runs[r].runbook_id) = 0
          \/ RaceSgId \notin cp.sgs
       THEN RaceReturn(r, "failed", cp)
       ELSE /\ SetRaceRun(r, [race.runs[r] EXCEPT
                                 !.pc = "found",
                                 !.sg_rules = { x \in cp.rules : x.sg = RaceSgId }])
            /\ UNCHANGED <<remediation_runs, cp>>
    /\ UNCHANGED <<catalog, findings, req, nreq, scans>>
    /\ UNCHANGED <<pipeVars, fixVars, yamlrun, watch>>

\* conn.network.delete_security_group_rule(world_rule["id"]) for the first
\* world-open rule of the copy; a rule already gone is ignored by the SDK
RaceDelete(r) ==
    /\ race.pc = "racing" /\ race.runs[r].pc = "found"
    /\ LET port == RacePort(race.runs[r].runbook_id)
           world == { x \in race.runs[r].sg_rules : WorldRuleMatches(x, port) }
       IN  cp' = IF world = {} THEN cp
                 ELSE [cp EXCEPT !.rules = @ \ {CHOOSE x \in world : TRUE}]
    /\ SetRaceRun(r, [race.runs[r] EXCEPT !.pc = "deleted"])
    /\ UNCHANGED <<catalog, findings, remediation_runs, req, nreq, scans>>
    /\ UNCHANGED <<pipeVars, fixVars, yamlrun, watch>>

\* the admin rule is looked up in the copy and created when the copy has none
RaceCreate(r, answer) ==
    /\ race.pc = "racing" /\ race.runs[r].pc = "deleted"
    /\ LET port == RacePort(race.runs[r].runbook_id)
           admin_cidr == RaceAdminCidr(race.runs[r].runbook_id)
           admin_rule_exists ==
               \E x \in race.runs[r].sg_rules : AdminRuleMatches(x, admin_cidr, port)
           new == Rule(cp.nextRuleId, RaceSgId, "ingress", admin_cidr, "tcp", port, port)
           duplicate == \E x \in cp.rules : RuleAttrs(x) = RuleAttrs(new)
           created == [cp EXCEPT !.rules = @ \cup {new}, !.nextRuleId = @ + 1]
       IN  IF admin_rule_exists
           THEN answer = "" /\ RaceReturn(r, "success", cp)
           ELSE IF ~ValidCidr(admin_cidr)
           THEN answer = "" /\ RaceReturn(r, "failed", cp)
           ELSE IF ~duplicate
           THEN answer = "" /\ RaceReturn(r, "success", created)
           ELSE /\ answer \in DuplicateAnswers
                /\ IF answer = "conflict" THEN RaceReturn(r, "failed", cp)
                   ELSE RaceReturn(r, "success", created)
    /\ UNCHANGED <<catalog, findings, req, nreq, scans>>
    /\ UNCHANGED <<pipeVars, fixVars, yamlrun, watch>>

\* UPDATE findings SET status = new_status; a failed run returns here
RaceRecordResult(r) ==
    /\ race.pc = "racing" /\ race.runs[r].pc = "executed"
    /\ findings' = [findings EXCEPT ![1].status = StatusAfterExecute(race.runs[r].status)]
    /\ SetRaceRun(r, [race.runs[r] EXCEPT
                        !.pc = IF race.runs[r].status = "success" THEN "verifying"
                               ELSE "done"])
    /\ UNCHANGED <<catalog, remediation_runs, cp, req, nreq, scans>>
    /\ UNCHANGED <<pipeVars, fixVars, yamlrun, watch>>

\* verify_ok = verify_remediation(...); one commit updates the run and the finding
RaceVerify(r) ==
    /\ race.pc = "racing" /\ race.runs[r].pc = "verifying"
    /\ LET v == verify_remediation(RaceFinding, cp, {})
       IN  /\ remediation_runs' = [remediation_runs EXCEPT ![race.runs[r].run_id].status =
                  IF v.ok THEN "verified" ELSE "verify_failed"]
           /\ findings' = [findings EXCEPT ![1].status = StatusAfterVerify(v.ok)]
    /\ SetRaceRun(r, [race.runs[r] EXCEPT !.pc = "done"])
    /\ UNCHANGED <<catalog, cp, req, nreq, scans>>
    /\ UNCHANGED <<pipeVars, fixVars, yamlrun, watch>>

NextRace ==
    \/ \E r \in RaceRuns, force \in BOOLEAN : RaceRequest(r, force)
    \/ \E r \in RaceRuns : RaceMarkRemediating(r)
    \/ \E r \in RaceRuns : RaceFind(r)
    \/ \E r \in RaceRuns : RaceDelete(r)
    \/ \E r \in RaceRuns, answer \in DuplicateAnswers \cup {""} : RaceCreate(r, answer)
    \/ \E r \in RaceRuns : RaceRecordResult(r)
    \/ \E r \in RaceRuns : RaceVerify(r)

SpecRace == InitRace /\ [][NextRace]_vars

\* both requests were admitted and have returned
BothFinished ==
    /\ race.pc = "racing"
    /\ \A r \in RaceRuns : race.runs[r].pc = "done" /\ race.runs[r].run_id # 0

WorldRulesLeft ==
    { x \in cp.rules : x.sg = "sg-1" /\ WorldRuleMatches(x, SSH_PORT) }
AdminRulesHeld ==
    { x \in cp.rules : x.sg = "sg-1" /\ AdminRuleMatches(x, "10.0.0.0/8", SSH_PORT) }

SubDirs == 1..MaxDirs
FileStates == {"open", "stuck", "clean"}

\* elapsed >= self._batch_timeout (10 s) is reached in the second iteration
\* after the last detection (poll_interval 5 s)
BatchPolls == 2

WatcherConfigs ==
    { AutoFixer(c, IacCatalogFile) : c \in { TriggerConfig,
                                             [TriggerConfig EXCEPT !.enabled = FALSE] } }

InitWatcher ==
    /\ CloudIdle
    /\ pipe = PipeIdle /\ task = PipeIdle /\ scan_history = <<>> /\ deploys = 0
    /\ proc = NoProc
    /\ config \in WatcherConfigs
    /\ fs = [ trees |-> [ t \in Targets |-> NoTree ], backups |-> {} ]
    /\ fix_history = <<>> /\ now = 0 /\ last = NoCall /\ rolling = NoRollback
    /\ yamlrun = NoYamlRun /\ race = NoRace
    /\ watch = [ pc |-> "watching",
                 disk |-> [ d \in SubDirs |-> "none" ],      \* the file of each directory
                 hashes |-> [ d \in SubDirs |-> "none" ],    \* _file_hashes
                 pending |-> <<>>,                           \* _pending_batch, by directory
                 since |-> 0,           \* iterations since _last_file_time was set
                 placed |-> 0,          \* files placed from outside so far
                 ran |-> FALSE,         \* the last iteration ran the pipeline
                 batch |-> <<>>, target |-> 0 ]  \* the batch and target of that run

\* the orders in which os.walk may list the directories of a set
WalkOrders(S) ==
    { seq \in [ 1..Cardinality(S) -> S ] :
        \A i, j \in 1..Cardinality(S) : i # j => seq[i] # seq[j] }

\* someone copies a file into a new deployment directory
PlaceFile(d, content) ==
    /\ watch.pc = "watching"
    /\ watch.placed < MaxPlaced
    /\ watch.disk[d] = "none"
    /\ watch' = [watch EXCEPT !.disk[d] = content, !.placed = @ + 1]
    /\ UNCHANGED <<cloudVars, pipeVars, fixVars, yamlrun, race>>

\* process_deployment(target) as far as it changes the watched tree: with
\* findings and the fixer enabled, fix() first copies the target to
\* target.parent / (name + "_backup_" + timestamp), a sibling directory
\* inside the watch directory, and then rewrites what it can fix
\* if all_findings and self.fixer.enabled: fix() is called and makes its backup
MakesBackup(disk, target) == disk[target] \in {"open", "stuck"} /\ config.enabled

ProcessDeployment_BackupOutside(disk, target, backup) ==
    IF MakesBackup(disk, target)
    THEN [disk EXCEPT ![target] = IF @ = "open" THEN "clean" ELSE @]
    ELSE disk

ProcessDeployment(disk, target, backup) ==
    IF MakesBackup(disk, target)
    THEN [disk EXCEPT ![backup] = disk[target],
                      ![target] = IF @ = "open" THEN "clean" ELSE @]
    ELSE disk

\* the files of the directories that are known and not pending are dropped
Forget(w) ==
    LET inert == { d \in SubDirs :
                      /\ w.disk[d] # "none" /\ w.hashes[d] = w.disk[d]
                      /\ \A i \in 1..Len(w.pending) : w.pending[i] # d }
    IN  [w EXCEPT !.disk = [ d \in SubDirs |-> IF d \in inert THEN "none" ELSE @[d] ],
                  !.hashes = [ d \in SubDirs |-> IF d \in inert THEN "none" ELSE @[d] ]]

\* one iteration of _watch_loop
WatchLoop(seq, backup) ==
    /\ watch.pc = "watching"
    /\ LET \* _scan_directory / _check_file: new files and files whose hash changed
           detected == { d \in SubDirs :
                           watch.disk[d] # "none" /\ watch.hashes[d] # watch.disk[d] }
           hashes == [ d \in SubDirs |-> IF d \in detected THEN watch.disk[d]
                                         ELSE watch.hashes[d] ]
           pending == watch.pending \o seq
           since == IF detected = {} THEN watch.since ELSE 0
           \* _check_batch_ready
           ready == pending # <<>> /\ since >= BatchPolls
           \* _on_batch_ready: target_path = files[0].path.parent
           target == pending[1]
       IN  /\ seq \in WalkOrders(detected)
           /\ IF ready
              THEN /\ IF MakesBackup(watch.disk, target)
                      THEN /\ backup \in SubDirs /\ watch.disk[backup] = "none"
                           /\ \A d \in SubDirs : watch.disk[d] = "none" => backup <= d
                      ELSE backup = 0
                   /\ watch' = Forget([watch EXCEPT
                          !.disk = ProcessDeployment(watch.disk, target, backup),
                          !.hashes = hashes, !.pending = <<>>, !.since = 0,
                          !.ran = TRUE, !.batch = pending, !.target = target])
              ELSE /\ backup = 0
                   /\ watch' = Forget([watch EXCEPT
                          !.hashes = hashes, !.pending = pending,
                          !.since = IF pending = <<>> THEN 0
                                    ELSE IF since < BatchPolls THEN since + 1 ELSE since,
                          !.ran = FALSE, !.batch = <<>>, !.target = 0])
    /\ UNCHANGED <<cloudVars, pipeVars, fixVars, yamlrun, race>>

WatchLoops ==
    \E S \in SUBSET SubDirs : \E seq \in WalkOrders(S) :
        \E backup \in SubDirs \cup {0} : WatchLoop(seq, backup)

NextWatcher ==
    \/ \E d \in SubDirs, content \in FileStates : PlaceFile(d, content)
    \/ WatchLoops

SpecWatcher == InitWatcher /\ [][NextWatcher]_vars

\* the watch loop keeps running while the node runs
SpecWatcherFair == SpecWatcher /\ WF_vars(WatchLoops)

\* C39: after finitely many files were placed under the watch directory and
\* nothing else changes from outside, the watcher triggers only finitely
\* many pipeline runs: from some iteration on none runs the pipeline
C39_RunsCease == <>[](watch.pc = "watching" => ~watch.ran)

\* C40: every file of a batch reported ready lies under the target path of
\* the pipeline run triggered for it
C40_BatchUnderTarget ==
    (watch.pc = "watching" /\ watch.ran)
    => \A i \in 1..Len(watch.batch) : watch.batch[i] = watch.target

====
